---- MODULE Spec2Model ----
(***************************************************************************)
(* Model of the memebubbles API service (apps/api/src/index.ts): the       *)
(* listing aggregator, the metadata enrichment, the top-boosts cache and   *)
(* the recent-window cache with their single-flight refresh, and the       *)
(* scheduler.                                                              *)
(*                                                                         *)
(* Representation choices:                                                 *)
(*  - strings are TLA+ strings; String.prototype.toLowerCase is the        *)
(*    operator Lower, defined on the strings the model uses;               *)
(*  - a listing URL is the sequence of its non-empty path segments;        *)
(*  - a key built by joining parts with ":" is the tuple of its parts      *)
(*    (no modelled part contains a colon);                                 *)
(*  - an absent optional string is Undef, an absent number is NoNum;       *)
(*  - null for a cache state is NoState, for a promise is slot 0, for a    *)
(*    timestamp is NoTime;                                                 *)
(*  - time is in milliseconds since process start.                         *)
(***************************************************************************)
EXTENDS Integers, Sequences, FiniteSets, TLC

VARIABLES
    now,          \* Date.now()
    booted,       \* main() has run runSchedule() and setInterval()
    cache,        \* the top-boosts cache object
    recentCache,  \* the recent-window cache object, with its entries map
    topRuns,      \* running refreshTopBoostBubbles invocations, by slot
    recentRuns,   \* running refreshRecentBoostBubbles invocations, by slot
    topCalls,     \* getTopBoostBubbles calls suspended on `await inFlight`
    recentCalls,  \* getRecentBoostBubbles calls suspended on `await inFlight`
    returns,      \* what the calls that returned in the last step returned
    obs,          \* the refresh invocations that settled in the last step
    agg           \* aggregator harness: inputs and output of one call

cacheVars == <<now, booted, cache, recentCache, topRuns, recentRuns,
               topCalls, recentCalls, returns, obs>>
vars == <<now, booted, cache, recentCache, topRuns, recentRuns,
          topCalls, recentCalls, returns, obs, agg>>

----------------------------------------------------------------------------
(* Bounds of the model                                                     *)

MaxTicks == 2          \* the clock advances at most this many steps
MaxReqLimit == 2       \* request limits range over 1..MaxReqLimit
MaxSlots == 2          \* refresh invocations of one cache that can coexist
MaxTopLen == 2         \* longest primary feed in the aggregator harness
MaxSuppLen == 1        \* longest supplementary feed in the aggregator harness
RECENT_CAPACITY == 3   \* registry capacity (100 in the program)
MaxPoolItems == 7        \* most items handed to one mapLimit call
MaxBatchPairs == 3       \* most pairs in one /tokens/v1 batch response
MaxPairs == 3            \* most pairs handed to one pair-metadata fetch

(* Program constants                                                       *)

FRESH_TTL_MS == 30000
STALE_TTL_MS == 120000
SCHEDULE_LIMIT == 30

\* the instants at which the model looks at the clock: 0, the stale TTL, and one
\* fresh TTL more for every further step; from a state published at 0 the ages are
\* 0 (fresh), STALE_TTL_MS (the last stale age) and more (expired), from a state
\* published at STALE_TTL_MS they are 0 and FRESH_TTL_MS (the last fresh age)
ClockInstant(k) == IF k = 0 THEN 0 ELSE STALE_TTL_MS + (k - 1) * FRESH_TTL_MS

----------------------------------------------------------------------------
(* Values                                                                  *)

Undef == "undefined"
NoNum == -1
NoTime == -1
NoState == [updatedAtMs |-> NoTime, data |-> <<>>]

\* String.prototype.toLowerCase on the strings of the model: every string of the
\* model that holds an upper-case letter is listed, the others are their own image
Lower(s) ==
    CASE s = "SOL" -> "sol"
      [] s = "ETH" -> "eth"
      [] s = "Aa"  -> "aa"
      [] s = "AA"  -> "aa"
      [] s = "Bb"  -> "bb"
      [] s = "P1"  -> "p1"
      [] s = "P2"  -> "p2"
      [] s = "P3"  -> "p3"
      [] s = "P4"  -> "p4"
      [] s = "ABC" -> "abc"
      [] s = "ALP" -> "alp"
      [] s = "Alpha" -> "alpha"
      [] s = "Beta" -> "beta"
      [] s = "ECONNRESET" -> "econnreset"
      [] s = "ECONNREFUSED" -> "econnrefused"
      [] s = "ETIMEDOUT" -> "etimedout"
      [] s = "ENOTFOUND" -> "enotfound"
      [] OTHER     -> s

\* SeqsUpTo(S, n): the sequences over S of length at most n
SeqsUpTo(S, n) == UNION {[1..k -> S] : k \in 0..n}

\* Listing items as the upstream reports them (before any schema or mapping)
Item1 == [chainId |-> "sol", tokenAddress |-> "Aa", url |-> <<"sol", "P1">>,
          description |-> "d1", totalAmount |-> 5]
Item2 == [chainId |-> "SOL", tokenAddress |-> "aa", url |-> <<"sol">>,
          description |-> "d2", totalAmount |-> NoNum]
Item3 == [chainId |-> "sol", tokenAddress |-> "Bb", url |-> <<"SOL", "p1">>,
          description |-> "d3", totalAmount |-> 3]
Item4 == [chainId |-> "eth", tokenAddress |-> "Aa", url |-> <<"sol", "P2">>,
          description |-> "d4", totalAmount |-> 2]
Item5 == [chainId |-> "sol", tokenAddress |-> "Aa", url |-> <<"sol", "P2", "x">>,
          description |-> "d5", totalAmount |-> 1]
Items == {Item1, Item2, Item3, Item4, Item5}

\* An upstream listing response: a failed fetch, or the parsed JSON array
FailedResp == [ok |-> FALSE, items |-> <<>>]
OkResp(items) == [ok |-> TRUE, items |-> items]

----------------------------------------------------------------------------
(* Listing fetch with retries                                              *)

\* What one HTTP attempt of httpsGetJson ends with: the parsed JSON body ("json"),
\* the hard timeout ("timeout"), a socket error with its code ("neterr"), a status
\* outside 200..299 ("status"), or a body that is not JSON ("badjson")
JsonOutcome(items) == [kind |-> "json", code |-> Undef, items |-> items]
TimeoutOutcome == [kind |-> "timeout", code |-> "ETIMEDOUT", items |-> <<>>]
NetErrOutcome(code) == [kind |-> "neterr", code |-> code, items |-> <<>>]
StatusOutcome == [kind |-> "status", code |-> Undef, items |-> <<>>]
BadJsonOutcome == [kind |-> "badjson", code |-> Undef, items |-> <<>>]

\* variant that retries after every failure
isRetryableAnyError(err) == TRUE

\* isRetryableNetworkError, on the error an attempt ended with
isRetryableNetworkError(err) ==
    \/ err.kind = "timeout"
    \/ err.code \in {"ECONNRESET", "ETIMEDOUT", "ENOTFOUND", "EAI_AGAIN"}

\* fetchDexscreenerList: `maxAttempts = opts.maxAttempts ?? 3`
LIST_MAX_ATTEMPTS == 3
\* the base of the backoff: `200 * Math.pow(2, attempt - 1)`
RETRY_BASE_DELAY_MS == 200

\* the schemas of the listing fetchers: the top list requires totalAmount
TopSchemaAccepts(items) == \A i \in 1..Len(items) : items[i].totalAmount # NoNum
BaseSchemaAccepts(items) == TRUE
\* the schema each fetcher passes to fetchDexscreenerList
SchemaAccepts(fetcher, items) ==
    IF fetcher = "top" THEN TopSchemaAccepts(items) ELSE BaseSchemaAccepts(items)

RECURSIVE fetchAttemptLoop(_, _, _, _)
\* fetchDexscreenerList, the loop: outcomes[k] is what the k-th HTTP attempt ends with;
\* the result tells how many attempts were made
fetchAttemptLoop(outcomes, fetcher, attempt, maxAttempts) ==
    IF attempt > maxAttempts THEN [ok |-> FALSE, items |-> <<>>, attempts |-> maxAttempts]
    ELSE LET o == outcomes[attempt]
             \* the error caught: the rejection of httpsGetJson, or the schema's
             err == IF o.kind = "json" THEN [kind |-> "schema", code |-> Undef, items |-> <<>>]
                    ELSE o
         IN  IF o.kind = "json" /\ SchemaAccepts(fetcher, o.items)
             THEN [ok |-> TRUE, items |-> o.items, attempts |-> attempt]
             ELSE IF attempt >= maxAttempts \/ ~isRetryableNetworkError(err)
                  THEN [ok |-> FALSE, items |-> <<>>, attempts |-> attempt]
                  ELSE fetchAttemptLoop(outcomes, fetcher, attempt + 1, maxAttempts)

\* variant of the backoff that waits the base delay before every retry
retryDelayMsConstant(attempt) == RETRY_BASE_DELAY_MS

\* `const delayMs = 200 * Math.pow(2, attempt - 1)`
retryDelayMs(attempt) == RETRY_BASE_DELAY_MS * 2 ^ (attempt - 1)

RECURSIVE fetchAttemptSleeps(_, _, _, _)
\* fetchDexscreenerList / fetchBatch, the loop: the `await sleep(delayMs)` it performs,
\* in order
fetchAttemptSleeps(outcomes, fetcher, attempt, maxAttempts) ==
    IF attempt > maxAttempts THEN <<>>
    ELSE LET o == outcomes[attempt]
             err == IF o.kind = "json" THEN [kind |-> "schema", code |-> Undef, items |-> <<>>]
                    ELSE o
         IN  IF o.kind = "json" /\ SchemaAccepts(fetcher, o.items)
             THEN <<>>
             ELSE IF attempt >= maxAttempts \/ ~isRetryableNetworkError(err)
                  THEN <<>>
                  ELSE <<retryDelayMs(attempt)>>
                         \o fetchAttemptSleeps(outcomes, fetcher, attempt + 1, maxAttempts)

\* fetchDexscreenerList({url, schema, label}) as called by the fetcher
fetchDexscreenerList(outcomes, fetcher) ==
    fetchAttemptLoop(outcomes, fetcher, 1, LIST_MAX_ATTEMPTS)

\* fetchBatch: `const maxAttempts = 2`
ENRICH_MAX_ATTEMPTS == 2

\* fetchBatch, the loop around httpsGetJson and schema.parse (the schema of the model
\* accepts every decoded body)
fetchBatchAttempts(outcomes) == fetchAttemptLoop(outcomes, "tokens", 1, ENRICH_MAX_ATTEMPTS)

\* a pair lookup of fetchPairsMetaMap / fetchPairsMetaByPairKey: one httpsGetJson
\* inside try/catch, no loop
pairLookupAttempts(outcomes) ==
    IF outcomes[1].kind = "json"
    THEN [ok |-> TRUE, items |-> outcomes[1].items, attempts |-> 1]
    ELSE [ok |-> FALSE, items |-> <<>>, attempts |-> 1]

\* the fetch each kind of caller performs on the outcomes of its attempts
fetchAttempts(fetcher, outcomes) ==
    CASE fetcher = "tokens" -> fetchBatchAttempts(outcomes)
      [] fetcher = "pairs" -> pairLookupAttempts(outcomes)
      [] OTHER -> fetchDexscreenerList(outcomes, fetcher)

\* the sleeps each kind of caller takes between its attempts
fetchSleeps(fetcher, outcomes) ==
    CASE fetcher = "tokens" -> fetchAttemptSleeps(outcomes, "tokens", 1, ENRICH_MAX_ATTEMPTS)
      [] fetcher = "pairs" -> <<>>
      [] OTHER -> fetchAttemptSleeps(outcomes, fetcher, 1, LIST_MAX_ATTEMPTS)

\* variant that turns the rejection into an empty list
ListingAnswerEmptyOnFailure(fetched) == OkResp(fetched.items)

\* what a listing fetcher gets from fetchDexscreenerList: the list, or the rejection
ListingAnswer(fetched) == IF fetched.ok THEN OkResp(fetched.items) ELSE FailedResp

----------------------------------------------------------------------------
(* SourceAggregator                                                        *)

\* normalizeBoost: a missing totalAmount becomes 0
normalizeBoost(base) ==
    [base EXCEPT !.totalAmount = IF base.totalAmount # NoNum THEN base.totalAmount ELSE 0]

\* fetchTopBoostsFromDexscreener: the schema requires totalAmount on every item
fetchTopBoostsFromDexscreener(resp) ==
    IF resp.ok /\ \A i \in 1..Len(resp.items) : resp.items[i].totalAmount # NoNum
    THEN resp
    ELSE FailedResp

\* fetchLatestBoostsFromDexscreener
fetchLatestBoostsFromDexscreener(resp) ==
    IF resp.ok
    THEN OkResp([i \in 1..Len(resp.items) |-> normalizeBoost(resp.items[i])])
    ELSE FailedResp

\* fetchLatestAdsFromDexscreener: keeps url, chainId, tokenAddress only
fetchLatestAdsFromDexscreener(resp) ==
    IF resp.ok
    THEN OkResp([i \in 1..Len(resp.items) |->
                   [chainId |-> resp.items[i].chainId,
                    tokenAddress |-> resp.items[i].tokenAddress,
                    url |-> resp.items[i].url,
                    description |-> Undef,
                    totalAmount |-> 0]])
    ELSE FailedResp

\* fetchLatestTokenProfilesFromDexscreener
fetchLatestTokenProfilesFromDexscreener(resp) ==
    IF resp.ok
    THEN OkResp([i \in 1..Len(resp.items) |-> normalizeBoost(resp.items[i])])
    ELSE FailedResp

\* `.catch(() => [])` on a supplementary source
catchEmpty(r) == IF r.ok THEN r.items ELSE <<>>

\* variant of the dedupe key without `toLowerCase()`
dedupeKeyCaseSensitive(boost) == <<boost.chainId, boost.tokenAddress>>

\* the dedupe key of dedupeBoosts
dedupeKey(boost) == <<Lower(boost.chainId), Lower(boost.tokenAddress)>>

RECURSIVE dedupeLoop(_, _, _, _, _)
dedupeLoop(boosts, limit, i, seen, out) ==
    IF i > Len(boosts) THEN out
    ELSE LET boost == boosts[i]
             key == dedupeKey(boost)
             pushed == Append(out, boost)
         IN  IF key \in seen
             THEN dedupeLoop(boosts, limit, i + 1, seen, out)
             ELSE IF Len(pushed) >= limit
                  THEN pushed
                  ELSE dedupeLoop(boosts, limit, i + 1, seen \cup {key}, pushed)

dedupeBoosts(boosts, limit) == dedupeLoop(boosts, limit, 1, {}, <<>>)

\* variant without the `.catch(() => [])` of the supplementary sources
fetchCombinedBoostsAllOrNothing(feeds, limit) ==
    LET top      == fetchTopBoostsFromDexscreener(feeds.top)
        latest   == fetchLatestBoostsFromDexscreener(feeds.latest)
        ads      == fetchLatestAdsFromDexscreener(feeds.ads)
        profiles == fetchLatestTokenProfilesFromDexscreener(feeds.profiles)
    IN  IF ~top.ok \/ ~latest.ok \/ ~ads.ok \/ ~profiles.ok THEN FailedResp
        ELSE OkResp(dedupeBoosts(top.items \o latest.items \o ads.items \o profiles.items,
                                 limit))

\* variant that concatenates the latest boosts before the primary list
fetchCombinedBoostsLatestFirst(feeds, limit) ==
    LET top      == fetchTopBoostsFromDexscreener(feeds.top)
        latest   == catchEmpty(fetchLatestBoostsFromDexscreener(feeds.latest))
        ads      == catchEmpty(fetchLatestAdsFromDexscreener(feeds.ads))
        profiles == catchEmpty(fetchLatestTokenProfilesFromDexscreener(feeds.profiles))
    IN  IF ~top.ok THEN FailedResp
        ELSE OkResp(dedupeBoosts(latest \o top.items \o ads \o profiles, limit))

\* fetchCombinedBoosts: rejects exactly when the primary fetch rejects
fetchCombinedBoosts(feeds, limit) ==
    LET top      == fetchTopBoostsFromDexscreener(feeds.top)
        latest   == catchEmpty(fetchLatestBoostsFromDexscreener(feeds.latest))
        ads      == catchEmpty(fetchLatestAdsFromDexscreener(feeds.ads))
        profiles == catchEmpty(fetchLatestTokenProfilesFromDexscreener(feeds.profiles))
    IN  IF ~top.ok THEN FailedResp
        ELSE OkResp(dedupeBoosts(top.items \o latest \o ads \o profiles, limit))

----------------------------------------------------------------------------
(* Insertion-ordered Map: a sequence of <<key, value>> with distinct keys  *)

MapHas(m, k) == \E i \in 1..Len(m) : m[i][1] = k
MapGet(m, k) == m[CHOOSE i \in 1..Len(m) : m[i][1] = k][2]
MapSet(m, k, v) ==
    IF MapHas(m, k)
    THEN [i \in 1..Len(m) |-> IF m[i][1] = k THEN <<k, v>> ELSE m[i]]
    ELSE Append(m, <<k, v>>)
MapDelete(m, k) == SelectSeq(m, LAMBDA e : e[1] # k)
MapKeys(m) == {m[i][1] : i \in 1..Len(m)}
MapValues(m) == [i \in 1..Len(m) |-> m[i][2]]

RECURSIVE MapSetAll(_, _, _)
\* m.set(k, v) for every <<k, v>> of kvs from position i on, in order
MapSetAll(m, kvs, i) ==
    IF i > Len(kvs) THEN m
    ELSE MapSetAll(MapSet(m, kvs[i][1], kvs[i][2]), kvs, i + 1)

----------------------------------------------------------------------------
(* MetadataEnricher                                                        *)

\* TokenMeta; def = FALSE stands for `undefined` (no meta object)
NoMeta == [def |-> FALSE, name |-> Undef, symbol |-> Undef, imageUrl |-> Undef,
           headerImageUrl |-> Undef, marketCap |-> NoNum, pairAddress |-> Undef]
EmptyMeta == [NoMeta EXCEPT !.def = TRUE]

\* Pair objects as the upstream reports them
PairObj1 == [chainId |-> "sol", pairAddress |-> "P1", baseAddress |-> "Aa",
             name |-> "Alpha", symbol |-> "ALP", imageUrl |-> Undef, header |-> Undef,
             marketCap |-> 1000, fdv |-> NoNum, liquidityUsd |-> 10]
PairObj2 == [chainId |-> "sol", pairAddress |-> "P2", baseAddress |-> "aa",
             name |-> Undef, symbol |-> Undef, imageUrl |-> "img", header |-> Undef,
             marketCap |-> NoNum, fdv |-> 7, liquidityUsd |-> 20]
PairObj3 == [chainId |-> "sol", pairAddress |-> "P3", baseAddress |-> "Bb",
             name |-> "Beta", symbol |-> Undef, imageUrl |-> Undef, header |-> "hdr",
             marketCap |-> NoNum, fdv |-> NoNum, liquidityUsd |-> NoNum]
PairObjs == {PairObj1, PairObj2, PairObj3}

\* `a ?? b` on optional numbers
CoalesceNum(a, b) == IF a # NoNum THEN a ELSE b

\* the TokenMeta built from one pair object (fetchBatch, fetchPairsMetaMap)
metaOfPair(p) ==
    [def |-> TRUE, name |-> p.name, symbol |-> p.symbol, imageUrl |-> p.imageUrl,
     headerImageUrl |-> p.header, marketCap |-> CoalesceNum(p.marketCap, p.fdv),
     pairAddress |-> p.pairAddress]

RECURSIVE bestByAddrLoopLastWins(_, _, _)
\* variant that replaces the kept pair on equal liquidity as well
bestByAddrLoopLastWins(pairs, i, bestByAddr) ==
    IF i > Len(pairs) THEN bestByAddr
    ELSE LET p == pairs[i]
             addr == Lower(p.baseAddress)
             usd == CoalesceNum(p.liquidityUsd, 0)
         IN  IF ~MapHas(bestByAddr, addr) \/ usd >= MapGet(bestByAddr, addr).usd
             THEN bestByAddrLoopLastWins(pairs, i + 1,
                                 MapSet(bestByAddr, addr, [usd |-> usd, meta |-> metaOfPair(p)]))
             ELSE bestByAddrLoopLastWins(pairs, i + 1, bestByAddr)

RECURSIVE bestByAddrLoop(_, _, _)
\* fetchBatch: per lowercased base address, the pair of strictly highest liquidity
bestByAddrLoop(pairs, i, bestByAddr) ==
    IF i > Len(pairs) THEN bestByAddr
    ELSE LET p == pairs[i]
             addr == Lower(p.baseAddress)
             usd == CoalesceNum(p.liquidityUsd, 0)
         IN  IF ~MapHas(bestByAddr, addr) \/ usd > MapGet(bestByAddr, addr).usd
             THEN bestByAddrLoop(pairs, i + 1,
                                 MapSet(bestByAddr, addr, [usd |-> usd, meta |-> metaOfPair(p)]))
             ELSE bestByAddrLoop(pairs, i + 1, bestByAddr)

\* fetchBatch wrapped in the try/catch of the mapLimit callback
fetchBatch(resp) ==
    IF ~resp.ok THEN <<>>
    ELSE LET best == bestByAddrLoop(resp.items, 1, <<>>)
         IN  [i \in 1..Len(best) |-> <<best[i][1], best[i][2].meta>>]

RECURSIVE uniqAddrLoop(_, _, _)
\* fetchTokenMetaMap: first spelling of every lowercased address, in order
uniqAddrLoop(addrs, i, uniq) ==
    IF i > Len(addrs) THEN uniq
    ELSE uniqAddrLoop(addrs, i + 1,
                      IF MapHas(uniq, Lower(addrs[i])) THEN uniq
                      ELSE MapSet(uniq, Lower(addrs[i]), addrs[i]))

\* DEXSCREENER_TOKENS_BATCH_SIZE (30 when the variable is not set)
TOKENS_BATCH_SIZE == 1

\* the batches of fetchTokenMetaMap
tokenBatches(addrs) ==
    LET uniqAddresses == MapValues(uniqAddrLoop(addrs, 1, <<>>))
        n == Len(uniqAddresses)
        nb == (n + TOKENS_BATCH_SIZE - 1) \div TOKENS_BATCH_SIZE
    IN  [b \in 1..nb |->
           SubSeq(uniqAddresses, (b - 1) * TOKENS_BATCH_SIZE + 1,
                  IF b * TOKENS_BATCH_SIZE < n THEN b * TOKENS_BATCH_SIZE ELSE n)]

RECURSIVE mergeBatchMaps(_, _, _)
mergeBatchMaps(batchResults, b, out) ==
    IF b > Len(batchResults) THEN out
    ELSE mergeBatchMaps(batchResults, b + 1, MapSetAll(out, batchResults[b], 1))

\* the numbers of the batches fetchTokenMetaMap sends for these boosts
BatchIds(boosts) == 1..Len(tokenBatches([i \in 1..Len(boosts) |-> boosts[i].tokenAddress]))

\* fetchTokenMetaMap(addrs); respOf[b] is the upstream's answer to batch b
fetchTokenMetaMap(addrs, respOf) ==
    LET batches == tokenBatches(addrs)
        batchResults == [b \in 1..Len(batches) |-> fetchBatch(respOf[b])]
    IN  mergeBatchMaps(batchResults, 1, <<>>)

\* parsePairAddressFromUrl: the second path segment when the first is the chain
parsePairAddressFromUrl(url, chainId) ==
    IF Len(url) < 2 THEN Undef
    ELSE IF Lower(url[1]) # Lower(chainId) THEN Undef
    ELSE url[2]

\* tokenKeyToString(boostToTokenKey(boost))
boostKeyStr(boost) ==
    LET pairAddress == parsePairAddressFromUrl(boost.url, boost.chainId)
    IN  IF pairAddress # Undef
        THEN <<Lower(boost.chainId), Lower(pairAddress)>>
        ELSE <<Lower(boost.chainId), "token", Lower(boost.tokenAddress)>>

\* pairKeyToString
pairKeyToString(p) == <<Lower(p.chainId), Lower(p.pairAddress)>>

RECURSIVE uniqPairsLoopAsSpelled(_, _, _)
\* variant keyed by the pair as spelled, without lowercasing
uniqPairsLoopAsSpelled(pairs, i, uniq) ==
    IF i > Len(pairs) THEN uniq
    ELSE uniqPairsLoopAsSpelled(pairs, i + 1,
                                MapSet(uniq, <<pairs[i].chainId, pairs[i].pairAddress>>, pairs[i]))

RECURSIVE uniqPairsLoop(_, _, _)
\* fetchPairsMetaMap / fetchPairsMetaByPairKey: `uniq.set(pairKeyToString(p), p)`
uniqPairsLoop(pairs, i, uniq) ==
    IF i > Len(pairs) THEN uniq
    ELSE uniqPairsLoop(pairs, i + 1, MapSet(uniq, pairKeyToString(pairs[i]), pairs[i]))

uniqPairs(pairs) == MapValues(uniqPairsLoop(pairs, 1, <<>>))

\* the request a pair lookup sends: `${chainId}/${pairAddress}`, as spelled
pairRequest(p) == <<p.chainId, p.pairAddress>>
\* the lookups one fetchPairsMetaMap / fetchPairsMetaByPairKey call sends, in order
pairLookups(pairs) == [i \in 1..Len(uniqPairs(pairs)) |-> pairRequest(uniqPairs(pairs)[i])]
PairRequests(pairs) == {pairRequest(uniqPairs(pairs)[i]) : i \in 1..Len(uniqPairs(pairs))}

\* one pair lookup of fetchPairsMetaMap: null (def = FALSE) on failure or no pair
lookupPairByAddr(resp) ==
    IF ~resp.ok \/ Len(resp.items) = 0 THEN [def |-> FALSE, addr |-> Undef, meta |-> NoMeta]
    ELSE [def |-> TRUE, addr |-> Lower(resp.items[1].baseAddress),
          meta |-> metaOfPair(resp.items[1])]

RECURSIVE collectByAddr(_, _, _)
collectByAddr(metas, i, out) ==
    IF i > Len(metas) THEN out
    ELSE collectByAddr(metas, i + 1,
                       IF metas[i].def THEN MapSet(out, metas[i].addr, metas[i].meta)
                       ELSE out)

\* fetchPairsMetaMap(pairs): keyed by the lowercased base-token address
fetchPairsMetaMap(pairs, respOf) ==
    LET up == uniqPairs(pairs)
        metas == [i \in 1..Len(up) |-> lookupPairByAddr(respOf[pairRequest(up[i])])]
    IN  collectByAddr(metas, 1, <<>>)

\* one pair lookup of fetchPairsMetaByPairKey
lookupPairByKey(p, resp) ==
    IF ~resp.ok \/ Len(resp.items) = 0 THEN [def |-> FALSE, key |-> <<>>, meta |-> NoMeta]
    ELSE [def |-> TRUE, key |-> pairKeyToString(p), meta |-> metaOfPair(resp.items[1])]

RECURSIVE collectByKey(_, _, _)
collectByKey(metas, i, out) ==
    IF i > Len(metas) THEN out
    ELSE collectByKey(metas, i + 1,
                      IF metas[i].def THEN MapSet(out, metas[i].key, metas[i].meta)
                      ELSE out)

\* fetchPairsMetaByPairKey(pairs): keyed by pairKeyToString of the request
fetchPairsMetaByPairKey(pairs, respOf) ==
    LET up == uniqPairs(pairs)
        metas == [i \in 1..Len(up) |-> lookupPairByKey(up[i], respOf[pairRequest(up[i])])]
    IN  collectByKey(metas, 1, <<>>)

\* `map.get(k)` with undefined as NoMeta
MetaGet(m, k) == IF MapHas(m, k) THEN MapGet(m, k) ELSE NoMeta
\* `a ?? b` on optional TokenMeta objects and on optional strings
CoalesceMeta(a, b) == IF a.def THEN a ELSE b
CoalesceStr(a, b) == IF a # Undef THEN a ELSE b
\* `a || b` on optional strings
OrStr(a, b) == IF a # Undef /\ a # "" THEN a ELSE b

\* the character U+2026 of the template literal, written in ASCII
Ellipsis == "..."

\* shortAddress: an address of more than 12 characters keeps its first 4 and its
\* last 4 characters
shortAddress(address) ==
    IF Len(address) <= 12 THEN address
    ELSE SubSeq(address, 1, 4) \o Ellipsis
         \o SubSeq(address, Len(address) - 3, Len(address))

\* mapBoostToBubbleNode (the items of the model carry no icon, header or links)
mapBoostToBubbleNode(boost, rank, meta) ==
    [id |-> <<boost.chainId, boost.tokenAddress>>,
     rank |-> rank,
     chainId |-> boost.chainId,
     tokenAddress |-> boost.tokenAddress,
     label |-> OrStr(meta.name, OrStr(meta.symbol, shortAddress(boost.tokenAddress))),
     symbol |-> meta.symbol,
     name |-> meta.name,
     marketCap |-> meta.marketCap,
     pairAddress |-> meta.pairAddress,
     score |-> boost.totalAmount,
     url |-> boost.url,
     description |-> boost.description,
     headerImageUrl |-> CoalesceStr(meta.headerImageUrl, Undef),
     iconUrl |-> CoalesceStr(meta.imageUrl, Undef)]

\* mapBoostToRecentBubbleNode
mapBoostToRecentBubbleNode(entry, rank) ==
    [mapBoostToBubbleNode(entry.boost, rank, entry.meta) EXCEPT !.id = entry.key,
                                                               !.rank = rank]

RECURSIVE topPairLoop(_, _, _, _)
\* refreshTopBoostBubbles, the loop over `top`: <<tokenMetaMap, pairsToFetch>>
topPairLoop(top, i, tokenMetaMap, pairsToFetch) ==
    IF i > Len(top) THEN <<tokenMetaMap, pairsToFetch>>
    ELSE LET b == top[i]
             addr == Lower(b.tokenAddress)
             parsedPair == parsePairAddressFromUrl(b.url, b.chainId)
             map2 == IF parsedPair # Undef
                     THEN MapSet(tokenMetaMap, addr,
                                 [CoalesceMeta(MetaGet(tokenMetaMap, addr), EmptyMeta)
                                    EXCEPT !.pairAddress = parsedPair])
                     ELSE tokenMetaMap
             pairAddress == MetaGet(map2, addr).pairAddress
         IN  topPairLoop(top, i + 1, map2,
                         IF pairAddress # Undef /\ pairAddress # ""
                         THEN Append(pairsToFetch,
                                     [chainId |-> b.chainId, pairAddress |-> pairAddress])
                         ELSE pairsToFetch)

\* variant that publishes only the boosts some pass found metadata for
topNodesOnlyEnriched(boosts, limit, tokenRespOf, pairRespOf) ==
    LET top == SubSeq(boosts, 1, IF Len(boosts) < limit THEN Len(boosts) ELSE limit)
        addrs == [i \in 1..Len(top) |-> top[i].tokenAddress]
        tokenMetaMap == fetchTokenMetaMap(addrs, tokenRespOf)
        pairMetaMap == fetchPairsMetaMap(topPairLoop(top, 1, tokenMetaMap, <<>>)[2], pairRespOf)
        found == SelectSeq(top, LAMBDA b : \/ MapHas(tokenMetaMap, Lower(b.tokenAddress))
                                           \/ MapHas(pairMetaMap, Lower(b.tokenAddress)))
    IN  [idx \in 1..Len(found) |->
           LET addr == Lower(found[idx].tokenAddress)
           IN  mapBoostToBubbleNode(found[idx], idx,
                  CoalesceMeta(MetaGet(pairMetaMap, addr), MetaGet(tokenMetaMap, addr)))]

\* refreshTopBoostBubbles, from the aggregated boosts to the nodes
topNodes(boosts, limit, tokenRespOf, pairRespOf) ==
    LET top == SubSeq(boosts, 1, IF Len(boosts) < limit THEN Len(boosts) ELSE limit)
        addrs == [i \in 1..Len(top) |-> top[i].tokenAddress]
        looped == topPairLoop(top, 1, fetchTokenMetaMap(addrs, tokenRespOf), <<>>)
        tokenMetaMap == looped[1]
        pairMetaMap == fetchPairsMetaMap(looped[2], pairRespOf)
    IN  [idx \in 1..Len(top) |->
           LET addr == Lower(top[idx].tokenAddress)
           IN  mapBoostToBubbleNode(top[idx], idx,
                  CoalesceMeta(MetaGet(pairMetaMap, addr), MetaGet(tokenMetaMap, addr)))]

\* the pair lookups the top refresh sends for these boosts and token answers
topPairRequests(boosts, limit, tokenRespOf) ==
    LET top == SubSeq(boosts, 1, IF Len(boosts) < limit THEN Len(boosts) ELSE limit)
        addrs == [i \in 1..Len(top) |-> top[i].tokenAddress]
    IN  PairRequests(topPairLoop(top, 1, fetchTokenMetaMap(addrs, tokenRespOf), <<>>)[2])

----------------------------------------------------------------------------
(* Upstream answers drawn by the cache machine                             *)

\* the two caches together draw from few answers; each cache alone from more
EmptyFeed == OkResp(<<>>)
FeedsWithTop(tops) == {[top |-> t, latest |-> EmptyFeed, ads |-> EmptyFeed, profiles |-> EmptyFeed] :
                  t \in tops}
CacheTopFeeds == FeedsWithTop({FailedResp, OkResp(<<Item1>>)})
CacheRecentFeeds == FeedsWithTop({FailedResp, OkResp(<<Item1>>), OkResp(<<Item3>>)})
CacheTokenResps == {FailedResp}
CachePairResps == {FailedResp}

WideTopFeeds ==
    {[top |-> t, latest |-> l, ads |-> EmptyFeed, profiles |-> EmptyFeed] :
       t \in {FailedResp, OkResp(<<Item1, Item3>>), OkResp(<<Item5>>)},
       l \in {FailedResp, OkResp(<<Item4>>)}}
WideRecentFeeds ==
    {[top |-> t, latest |-> EmptyFeed, ads |-> a, profiles |-> EmptyFeed] :
       t \in {FailedResp, OkResp(<<Item1>>), OkResp(<<Item3>>), OkResp(<<Item5>>)},
       a \in {FailedResp, OkResp(<<Item2, Item4>>)}}
WidePairResps == {FailedResp, OkResp(<<PairObj3>>)}

----------------------------------------------------------------------------
(* Cache machine: shared pieces                                            *)

Slots == 1..MaxSlots
TopCallers == {"t1", "t2"}
RecentCallers == {"r1"}
ReqLimits == 1..MaxReqLimit

FreeRun == [pc |-> "free", limit |-> 0, startedAtMs |-> NoTime, latestAtStart |-> NoState,
            entriesAtStart |-> <<>>, tokenMetaMap |-> <<>>, pairsToFetch |-> <<>>]
IdleCall == [pc |-> "idle", limit |-> 0, awaiting |-> 0, path |-> "none"]

Running(runs) == {s \in Slots : runs[s].pc # "free"}
HasFreeSlot(runs) == \E s \in Slots : runs[s].pc = "free"
FreeSlot(runs) ==
    CHOOSE s \in Slots : runs[s].pc = "free" /\ \A r \in Slots : r < s => runs[r].pc # "free"

\* what a call hands back to the route: {state, stale}, or the rejection
Returned(cacheName, c, limit, path, state, stale) ==
    [cache |-> cacheName, caller |-> c, limit |-> limit, path |-> path,
     ok |-> TRUE, state |-> state, stale |-> stale]
Rejected(cacheName, c, limit, path) ==
    [cache |-> cacheName, caller |-> c, limit |-> limit, path |-> path,
     ok |-> FALSE, state |-> NoState, stale |-> FALSE]

\* a refresh invocation that settled: resolved (ok) or rejected
Settled(cacheName, s, ok) == [cache |-> cacheName, slot |-> s, ok |-> ok]

CacheInit ==
    /\ now = 0
    /\ booted = FALSE
    /\ cache = [latest |-> NoState, inFlight |-> 0, lastError |-> "null",
                lastAttemptedAtMs |-> NoTime]
    /\ recentCache = [latest |-> NoState, inFlight |-> 0, lastError |-> "null",
                      lastAttemptedAtMs |-> NoTime, entries |-> <<>>]
    /\ topRuns = [s \in Slots |-> FreeRun]
    /\ recentRuns = [s \in Slots |-> FreeRun]
    /\ topCalls = [c \in TopCallers |-> IdleCall]
    /\ recentCalls = [c \in RecentCallers |-> IdleCall]
    /\ returns = {}
    /\ obs = {}

----------------------------------------------------------------------------
(* SnapshotCache: the top-boosts cache                                     *)

\* refreshTopBoostBubbles up to its first await: `cache.lastAttemptedAtMs = Date.now()`;
\* the promise of the invocation is stored in cache.inFlight by its caller
startTopRefresh(limit) ==
    /\ HasFreeSlot(topRuns)
    /\ LET s == FreeSlot(topRuns)
       IN  /\ topRuns' = [topRuns EXCEPT ![s] =
                            [FreeRun EXCEPT !.pc = "running", !.limit = limit,
                                            !.startedAtMs = now,
                                            !.latestAtStart = cache.latest]]
           /\ cache' = [cache EXCEPT !.lastAttemptedAtMs = now, !.inFlight = s]

\* variant without the `if (cache.inFlight) return` guard
ensureRefreshInBackgroundUnguarded(limit) == startTopRefresh(limit)

\* ensureRefreshInBackground(limit)
ensureRefreshInBackground(limit) ==
    IF cache.inFlight # 0
    THEN UNCHANGED <<cache, topRuns>>
    ELSE startTopRefresh(limit)

\* variant of the first condition with a strict comparison of the length
topIsFreshStrictLength(limit) ==
    /\ cache.latest # NoState
    /\ now - cache.latest.updatedAtMs <= FRESH_TTL_MS
    /\ Len(cache.latest.data) > limit

\* getTopBoostBubbles: the condition of the first `if` (fresh zone)
topIsFresh(limit) ==
    /\ cache.latest # NoState
    /\ now - cache.latest.updatedAtMs <= FRESH_TTL_MS
    /\ Len(cache.latest.data) >= limit

\* getTopBoostBubbles: the condition of the second `if` (stale zone)
topIsStale(limit) ==
    /\ cache.latest # NoState
    /\ now - cache.latest.updatedAtMs <= STALE_TTL_MS
    /\ Len(cache.latest.data) >= limit

\* what getTopBoostBubbles serves from the cache: `const latest = cache.latest`
topServed == cache.latest

\* variant of the first `if` that also triggers a background refresh
getTopFreshRefreshing(c, limit) ==
    /\ topIsFresh(limit)
    /\ ensureRefreshInBackground(limit)
    /\ returns' = {Returned("top", c, limit, "fresh", topServed, FALSE)}
    /\ UNCHANGED topCalls

\* getTopBoostBubbles, first `if`: `return { state: latest, stale: false }`
getTopFresh(c, limit) ==
    /\ topIsFresh(limit)
    /\ returns' = {Returned("top", c, limit, "fresh", topServed, FALSE)}
    /\ UNCHANGED <<cache, topRuns, topCalls>>

\* variant of the second `if` that serves the stale state without any refresh
getTopStaleNoRefresh(c, limit) ==
    /\ ~topIsFresh(limit)
    /\ topIsStale(limit)
    /\ returns' = {Returned("top", c, limit, "stale", topServed, TRUE)}
    /\ UNCHANGED <<cache, topRuns, topCalls>>

\* getTopBoostBubbles, second `if`: background refresh and `stale: true`
getTopStale(c, limit) ==
    /\ ~topIsFresh(limit)
    /\ topIsStale(limit)
    /\ ensureRefreshInBackground(limit)
    /\ returns' = {Returned("top", c, limit, "stale", topServed, TRUE)}
    /\ UNCHANGED topCalls

\* variant of `if (cache.inFlight)` that starts a refresh of its own
getTopJoinOwnRefresh(c, limit) ==
    /\ ~topIsFresh(limit)
    /\ ~topIsStale(limit)
    /\ cache.inFlight # 0
    /\ startTopRefresh(limit)
    /\ topCalls' = [topCalls EXCEPT ![c] =
                      [pc |-> "waiting", limit |-> limit, awaiting |-> cache'.inFlight,
                       path |-> "joined"]]
    /\ returns' = {}

\* variant of `if (cache.inFlight)` that also waits for a refresh of the recent cache
getTopJoinEitherRefresh(c, limit) ==
    /\ ~topIsFresh(limit)
    /\ ~topIsStale(limit)
    /\ cache.inFlight # 0 \/ recentCache.inFlight # 0
    /\ topCalls' = [topCalls EXCEPT ![c] =
                      [pc |-> "waiting", limit |-> limit,
                       awaiting |-> IF cache.inFlight # 0 THEN cache.inFlight
                                    ELSE recentCache.inFlight,
                       path |-> "joined"]]
    /\ returns' = {}
    /\ UNCHANGED <<cache, topRuns>>

\* getTopBoostBubbles, `if (cache.inFlight)`: `await cache.inFlight`
getTopJoin(c, limit) ==
    /\ ~topIsFresh(limit)
    /\ ~topIsStale(limit)
    /\ cache.inFlight # 0
    /\ topCalls' = [topCalls EXCEPT ![c] =
                      [pc |-> "waiting", limit |-> limit, awaiting |-> cache.inFlight,
                       path |-> "joined"]]
    /\ returns' = {}
    /\ UNCHANGED <<cache, topRuns>>

\* getTopBoostBubbles, last part: `cache.inFlight = refreshTopBoostBubbles(...)`, await
getTopStart(c, limit) ==
    /\ ~topIsFresh(limit)
    /\ ~topIsStale(limit)
    /\ cache.inFlight = 0
    /\ startTopRefresh(limit)
    /\ topCalls' = [topCalls EXCEPT ![c] =
                      [pc |-> "waiting", limit |-> limit, awaiting |-> cache'.inFlight,
                       path |-> "started"]]
    /\ returns' = {}

\* getTopBoostBubbles({limit, freshTtlMs: 30_000, staleTtlMs: 120_000}) by caller c
getTopBoostBubbles(c, limit) ==
    /\ booted
    /\ topCalls[c].pc = "idle"
    /\ \/ getTopFresh(c, limit)
       \/ getTopStale(c, limit)
       \/ getTopJoin(c, limit)
       \/ getTopStart(c, limit)
    /\ obs' = {}
    /\ UNCHANGED <<now, booted, recentCache, recentRuns, recentCalls, agg>>

\* the calls suspended on the promise of slot s resume with its settlement
topWaiters(s) == {c \in TopCallers : topCalls[c].pc = "waiting" /\ topCalls[c].awaiting = s}
topResumed(s) == [c \in TopCallers |-> IF c \in topWaiters(s) THEN IdleCall ELSE topCalls[c]]

\* variant of the failure path that also drops the published state
topRefreshFailsDropsState(s) ==
    /\ cache' = [cache EXCEPT !.latest = NoState, !.lastError = "err", !.inFlight = 0]
    /\ topRuns' = [topRuns EXCEPT ![s] = FreeRun]
    /\ returns' = {Rejected("top", c, topCalls[c].limit, topCalls[c].path) : c \in topWaiters(s)}
    /\ topCalls' = topResumed(s)
    /\ obs' = {Settled("top", s, FALSE)}

\* variant of the failure path whose wrapper has no `finally`: inFlight stays set
topRefreshFailsKeepsInFlight(s) ==
    /\ cache' = [cache EXCEPT !.lastError = "err"]
    /\ topRuns' = [topRuns EXCEPT ![s] = FreeRun]
    /\ returns' = {Rejected("top", c, topCalls[c].limit, topCalls[c].path) : c \in topWaiters(s)}
    /\ topCalls' = topResumed(s)
    /\ obs' = {Settled("top", s, FALSE)}

\* refreshTopBoostBubbles rejects (fetchCombinedBoosts rejected); the wrapper of the
\* invocation records the error and clears inFlight
topRefreshFails(s) ==
    /\ cache' = [cache EXCEPT !.lastError = "err", !.inFlight = 0]
    /\ topRuns' = [topRuns EXCEPT ![s] = FreeRun]
    /\ returns' = {Rejected("top", c, topCalls[c].limit, topCalls[c].path) : c \in topWaiters(s)}
    /\ topCalls' = topResumed(s)
    /\ obs' = {Settled("top", s, FALSE)}

\* variant of the success path that leaves cache.lastError as it was
topRefreshSucceedsKeepsError(s, nodes) ==
    LET state == [updatedAtMs |-> now, data |-> nodes]
    IN  /\ cache' = [cache EXCEPT !.latest = state, !.inFlight = 0]
        /\ topRuns' = [topRuns EXCEPT ![s] = FreeRun]
        /\ returns' = {Returned("top", c, topCalls[c].limit, topCalls[c].path, state, FALSE) :
                         c \in topWaiters(s)}
        /\ topCalls' = topResumed(s)
        /\ obs' = {Settled("top", s, TRUE)}

\* refreshTopBoostBubbles resolves: publishes the state; the wrapper clears inFlight
topRefreshSucceeds(s, nodes) ==
    LET state == [updatedAtMs |-> now, data |-> nodes]
    IN  /\ cache' = [cache EXCEPT !.latest = state, !.lastError = "null", !.inFlight = 0]
        /\ topRuns' = [topRuns EXCEPT ![s] = FreeRun]
        /\ returns' = {Returned("top", c, topCalls[c].limit, topCalls[c].path, state, FALSE) :
                         c \in topWaiters(s)}
        /\ topCalls' = topResumed(s)
        /\ obs' = {Settled("top", s, TRUE)}

\* the invocation of refreshTopBoostBubbles in slot s runs from its first await to its
\* end, on the upstream answers drawn from Feeds, TokenResps and PairResps
topRefreshRuns(s, Feeds, TokenResps, PairResps) ==
    /\ topRuns[s].pc = "running"
    /\ \E feeds \in Feeds :
         LET limit == topRuns[s].limit
             boosts == fetchCombinedBoosts(feeds, limit)
         IN  IF ~boosts.ok
             THEN topRefreshFails(s)
             ELSE \E tokenRespOf \in [BatchIds(boosts.items) -> TokenResps] :
                    LET reqs == topPairRequests(boosts.items, limit, tokenRespOf)
                    IN  \E pairRespOf \in [reqs -> PairResps] :
                          topRefreshSucceeds(s, topNodes(boosts.items, limit,
                                                         tokenRespOf, pairRespOf))
    /\ UNCHANGED <<now, booted, recentCache, recentRuns, recentCalls>>

topRefreshSettles(s, Feeds, TokenResps, PairResps) ==
    /\ topRefreshRuns(s, Feeds, TokenResps, PairResps)
    /\ UNCHANGED agg

refreshTopBoostBubbles(s) ==
    topRefreshSettles(s, CacheTopFeeds, CacheTokenResps, CachePairResps)

refreshTopBoostBubblesWide(s) ==
    topRefreshSettles(s, WideTopFeeds, CacheTokenResps, WidePairResps)

\* GET /api/v1/health: the body of the answer; null is NoTime for the numbers and
\* "null" for lastError, whose text is the fixed message of the route
getHealth ==
    [ok |-> TRUE,
     cached |-> cache.latest # NoState,
     cacheAgeMs |-> IF cache.latest # NoState THEN now - cache.latest.updatedAtMs ELSE NoTime,
     lastAttemptedAtMs |-> cache.lastAttemptedAtMs,
     lastError |-> IF cache.lastError # "null" THEN "upstream request failed" ELSE "null"]

----------------------------------------------------------------------------
(* RecentWindowCache: the recent-window cache                              *)

RECENT_TTL_MS == 21600000

RECURSIVE recentUpsertLoop(_, _, _, _, _, _)
\* refreshRecentBoostBubbles, the loop over `boosts`:
\* <<entries, tokenMetaMap, pairsToFetch>>
recentUpsertLoop(boosts, i, startedAt, entries, tokenMetaMap, pairsToFetch) ==
    IF i > Len(boosts) THEN <<entries, tokenMetaMap, pairsToFetch>>
    ELSE LET b == boosts[i]
             keyStr == boostKeyStr(b)
             existingMeta == IF MapHas(entries, keyStr) THEN MapGet(entries, keyStr).meta
                             ELSE NoMeta
             next == [key |-> keyStr, boost |-> b, lastSeenAtMs |-> startedAt,
                      meta |-> existingMeta]
             entries2 == MapSet(entries, keyStr, next)
             addr == Lower(b.tokenAddress)
             parsedPair == parsePairAddressFromUrl(b.url, b.chainId)
             pairAddress == MetaGet(tokenMetaMap, addr).pairAddress
         IN  IF parsedPair # Undef
             THEN recentUpsertLoop(boosts, i + 1, startedAt, entries2,
                     MapSet(tokenMetaMap, addr,
                            [CoalesceMeta(MetaGet(tokenMetaMap, addr), EmptyMeta)
                               EXCEPT !.pairAddress = parsedPair]),
                     Append(pairsToFetch, [chainId |-> b.chainId, pairAddress |-> parsedPair]))
             ELSE recentUpsertLoop(boosts, i + 1, startedAt, entries2, tokenMetaMap,
                     IF pairAddress # Undef /\ pairAddress # ""
                     THEN Append(pairsToFetch, [chainId |-> b.chainId, pairAddress |-> pairAddress])
                     ELSE pairsToFetch)

\* variant that never expires an entry
recentExpiredNever(startedAt, entry) == FALSE

\* `now - entry.lastSeenAtMs > RECENT_TTL_MS`, with the `now` taken when the refresh began
recentExpired(startedAt, entry) == startedAt - entry.lastSeenAtMs > RECENT_TTL_MS

RECURSIVE recentSweepLoop(_, _, _, _, _, _)
\* refreshRecentBoostBubbles, the loop over `recentCache.entries`: TTL eviction and
\* the metadata of the surviving entries
recentSweepLoop(entries, i, startedAt, tokenMetaMap, pairMetaByPairKey, out) ==
    IF i > Len(entries) THEN out
    ELSE LET keyStr == entries[i][1]
             entry == entries[i][2]
             addr == Lower(entry.boost.tokenAddress)
             parsedPair == parsePairAddressFromUrl(entry.boost.url, entry.boost.chainId)
             byPair == IF parsedPair # Undef
                       THEN MetaGet(pairMetaByPairKey,
                                    pairKeyToString([chainId |-> entry.boost.chainId,
                                                     pairAddress |-> parsedPair]))
                       ELSE NoMeta
             meta == CoalesceMeta(byPair, CoalesceMeta(MetaGet(tokenMetaMap, addr), entry.meta))
         IN  IF recentExpired(startedAt, entry)
             THEN recentSweepLoop(entries, i + 1, startedAt, tokenMetaMap, pairMetaByPairKey, out)
             ELSE recentSweepLoop(entries, i + 1, startedAt, tokenMetaMap, pairMetaByPairKey,
                                  Append(out, <<keyStr, [entry EXCEPT !.meta = meta]>>))

RECURSIVE sortByLastSeenLoop(_, _, _)
\* Array.prototype.sort((a, b) => b.lastSeenAtMs - a.lastSeenAtMs): stable, descending
sortByLastSeenLoop(xs, i, out) ==
    IF i > Len(xs) THEN out
    ELSE LET x == xs[i]
             before == Cardinality({j \in 1..Len(out) : out[j].lastSeenAtMs >= x.lastSeenAtMs})
         IN  sortByLastSeenLoop(xs, i + 1,
                SubSeq(out, 1, before) \o <<x>> \o SubSeq(out, before + 1, Len(out)))

\* variant that leaves the entries in the order of the registry
sortByLastSeenKeepsOrder(xs) == xs

sortByLastSeen(xs) == sortByLastSeenLoop(xs, 1, <<>>)

\* variant that evicts nothing
recentEvictNothing(entries) == entries

\* variant of the capacity eviction that keeps the entries seen longest ago
recentEvictKeepsOldest(entries) ==
    LET sorted == sortByLastSeen(MapValues(entries))
        keep == {sorted[i].key : i \in (Len(sorted) - RECENT_CAPACITY + 1)..Len(sorted)}
    IN  IF Len(sorted) > RECENT_CAPACITY
        THEN SelectSeq(entries, LAMBDA e : e[1] \in keep)
        ELSE entries

\* variant of the capacity eviction that removes the entry seen longest ago whenever
\* the registry holds more than one entry
recentEvictOneEachTime(entries) ==
    LET sorted == sortByLastSeen(MapValues(entries))
    IN  IF Len(sorted) > 1
        THEN SelectSeq(entries, LAMBDA e : e[1] # sorted[Len(sorted)].key)
        ELSE entries

\* refreshRecentBoostBubbles, the capacity eviction
recentEvictOverCapacity(entries) ==
    LET sorted == sortByLastSeen(MapValues(entries))
        keep == {sorted[i].key : i \in 1..RECENT_CAPACITY}
    IN  IF Len(sorted) > RECENT_CAPACITY
        THEN SelectSeq(entries, LAMBDA e : e[1] \in keep)
        ELSE entries

\* variant that ranks the entries by their position in the registry before sorting
recentNodesRankByInsertion(entries) ==
    LET values == MapValues(entries)
        finalSorted == sortByLastSeen(values)
    IN  [idx \in 1..Len(finalSorted) |->
           mapBoostToRecentBubbleNode(finalSorted[idx],
               CHOOSE i \in 1..Len(values) : values[i].key = finalSorted[idx].key)]

\* refreshRecentBoostBubbles, the nodes of the published state
recentNodes(entries) ==
    LET finalSorted == sortByLastSeen(MapValues(entries))
    IN  [idx \in 1..Len(finalSorted) |-> mapBoostToRecentBubbleNode(finalSorted[idx], idx)]

\* refreshRecentBoostBubbles up to its first await:
\* `recentCache.lastAttemptedAtMs = Date.now(); const now = Date.now()`
startRecentRefresh ==
    /\ HasFreeSlot(recentRuns)
    /\ LET s == FreeSlot(recentRuns)
       IN  /\ recentRuns' = [recentRuns EXCEPT ![s] =
                               [FreeRun EXCEPT !.pc = "boosts", !.startedAtMs = now,
                                               !.latestAtStart = recentCache.latest,
                                               !.entriesAtStart = recentCache.entries]]
           /\ recentCache' = [recentCache EXCEPT !.lastAttemptedAtMs = now, !.inFlight = s]

\* ensureRecentRefreshInBackground
ensureRecentRefreshInBackground ==
    IF recentCache.inFlight # 0
    THEN UNCHANGED <<recentCache, recentRuns>>
    ELSE startRecentRefresh

\* getRecentBoostBubbles: the condition of the first `if` (fresh zone)
recentIsFresh ==
    /\ recentCache.latest # NoState
    /\ now - recentCache.latest.updatedAtMs <= FRESH_TTL_MS

\* getRecentBoostBubbles: the condition of the second `if` (stale zone)
recentIsStale ==
    /\ recentCache.latest # NoState
    /\ now - recentCache.latest.updatedAtMs <= STALE_TTL_MS

\* variant that serves a live view of the registry instead of the published state
recentServedLive ==
    [updatedAtMs |-> recentCache.latest.updatedAtMs, data |-> recentNodes(recentCache.entries)]

\* what getRecentBoostBubbles serves from the cache: `const latest = recentCache.latest`
recentServed == recentCache.latest

getRecentFresh(c) ==
    /\ recentIsFresh
    /\ returns' = {Returned("recent", c, 0, "fresh", recentServed, FALSE)}
    /\ UNCHANGED <<recentCache, recentRuns, recentCalls>>

getRecentStale(c) ==
    /\ ~recentIsFresh
    /\ recentIsStale
    /\ ensureRecentRefreshInBackground
    /\ returns' = {Returned("recent", c, 0, "stale", recentServed, TRUE)}
    /\ UNCHANGED recentCalls

getRecentJoin(c) ==
    /\ ~recentIsFresh
    /\ ~recentIsStale
    /\ recentCache.inFlight # 0
    /\ recentCalls' = [recentCalls EXCEPT ![c] =
                         [pc |-> "waiting", limit |-> 0, awaiting |-> recentCache.inFlight,
                          path |-> "joined"]]
    /\ returns' = {}
    /\ UNCHANGED <<recentCache, recentRuns>>

getRecentStart(c) ==
    /\ ~recentIsFresh
    /\ ~recentIsStale
    /\ recentCache.inFlight = 0
    /\ startRecentRefresh
    /\ recentCalls' = [recentCalls EXCEPT ![c] =
                         [pc |-> "waiting", limit |-> 0, awaiting |-> recentCache'.inFlight,
                          path |-> "started"]]
    /\ returns' = {}

\* getRecentBoostBubbles({freshTtlMs: 30_000, staleTtlMs: 120_000}) by caller c
getRecentBoostBubbles(c) ==
    /\ booted
    /\ recentCalls[c].pc = "idle"
    /\ \/ getRecentFresh(c)
       \/ getRecentStale(c)
       \/ getRecentJoin(c)
       \/ getRecentStart(c)
    /\ obs' = {}
    /\ UNCHANGED <<now, booted, cache, topRuns, topCalls, agg>>

recentWaiters(s) ==
    {c \in RecentCallers : recentCalls[c].pc = "waiting" /\ recentCalls[c].awaiting = s}
recentResumed(s) ==
    [c \in RecentCallers |-> IF c \in recentWaiters(s) THEN IdleCall ELSE recentCalls[c]]

\* variant of the failure path that empties the registry
recentRefreshFailsClearsRegistry(s) ==
    /\ recentCache' = [recentCache EXCEPT !.lastError = "err", !.inFlight = 0,
                                          !.entries = <<>>]
    /\ recentRuns' = [recentRuns EXCEPT ![s] = FreeRun]
    /\ returns' = {Rejected("recent", c, 0, recentCalls[c].path) : c \in recentWaiters(s)}
    /\ recentCalls' = recentResumed(s)
    /\ obs' = {Settled("recent", s, FALSE)}

\* refreshRecentBoostBubbles rejects (fetchCombinedBoosts rejected); the wrapper of the
\* invocation records the error and clears inFlight
recentRefreshFails(s) ==
    /\ recentCache' = [recentCache EXCEPT !.lastError = "err", !.inFlight = 0]
    /\ recentRuns' = [recentRuns EXCEPT ![s] = FreeRun]
    /\ returns' = {Rejected("recent", c, 0, recentCalls[c].path) : c \in recentWaiters(s)}
    /\ recentCalls' = recentResumed(s)
    /\ obs' = {Settled("recent", s, FALSE)}

\* refreshRecentBoostBubbles from the aggregated boosts to `await fetchPairsMetaByPairKey`:
\* the entries of the boosts are inserted or replaced in the shared registry
recentUpsert(s, boosts, tokenRespOf) ==
    LET addrs == [i \in 1..Len(boosts) |-> boosts[i].tokenAddress]
        looped == recentUpsertLoop(boosts, 1, recentRuns[s].startedAtMs, recentCache.entries,
                                   fetchTokenMetaMap(addrs, tokenRespOf), <<>>)
    IN  /\ recentCache' = [recentCache EXCEPT !.entries = looped[1]]
        /\ recentRuns' = [recentRuns EXCEPT ![s].pc = "pairs",
                                            ![s].tokenMetaMap = looped[2],
                                            ![s].pairsToFetch = looped[3]]
        /\ returns' = {}
        /\ obs' = {}
        /\ UNCHANGED recentCalls

\* the invocation in slot s resumes with the aggregated boosts and the token metadata
recentBoostsArriveFrom(s, Feeds, TokenResps) ==
    /\ recentRuns[s].pc = "boosts"
    /\ \E feeds \in Feeds :
         LET boosts == fetchCombinedBoosts(feeds, RECENT_CAPACITY)
         IN  IF ~boosts.ok
             THEN recentRefreshFails(s)
             ELSE \E tokenRespOf \in [BatchIds(boosts.items) -> TokenResps] :
                    recentUpsert(s, boosts.items, tokenRespOf)
    /\ UNCHANGED <<now, booted, cache, topRuns, topCalls, agg>>

recentBoostsArrive(s) == recentBoostsArriveFrom(s, CacheRecentFeeds, CacheTokenResps)
recentBoostsArriveWide(s) == recentBoostsArriveFrom(s, WideRecentFeeds, CacheTokenResps)

\* refreshRecentBoostBubbles from the pair metadata to its end: sweep, capacity
\* eviction, publication; the wrapper clears inFlight
recentPublish(s, pairRespOf) ==
    LET run == recentRuns[s]
        swept == recentSweepLoop(recentCache.entries, 1, run.startedAtMs, run.tokenMetaMap,
                                 fetchPairsMetaByPairKey(run.pairsToFetch, pairRespOf), <<>>)
        kept == recentEvictOverCapacity(swept)
        state == [updatedAtMs |-> now, data |-> recentNodes(kept)]
    IN  /\ recentCache' = [recentCache EXCEPT !.entries = kept, !.latest = state,
                                              !.lastError = "null", !.inFlight = 0]
        /\ recentRuns' = [recentRuns EXCEPT ![s] = FreeRun]
        /\ returns' = {Returned("recent", c, 0, recentCalls[c].path, state, FALSE) :
                         c \in recentWaiters(s)}
        /\ recentCalls' = recentResumed(s)
        /\ obs' = {Settled("recent", s, TRUE)}

\* the invocation in slot s resumes with the pair metadata
recentPairsRun(s, PairResps) ==
    /\ recentRuns[s].pc = "pairs"
    /\ \E pairRespOf \in [PairRequests(recentRuns[s].pairsToFetch) -> PairResps] :
         recentPublish(s, pairRespOf)
    /\ UNCHANGED <<now, booted, cache, topRuns, topCalls>>

recentPairsArriveFrom(s, PairResps) ==
    /\ recentPairsRun(s, PairResps)
    /\ UNCHANGED agg

recentPairsArrive(s) == recentPairsArriveFrom(s, CachePairResps)
recentPairsArriveWide(s) == recentPairsArriveFrom(s, CachePairResps)

----------------------------------------------------------------------------
(* Scheduler and clock                                                     *)

\* main(): `void runSchedule()` and `setInterval(...)`, before the server listens
runSchedule ==
    /\ ~booted
    /\ booted' = TRUE
    /\ IF cache.latest = NoState THEN ensureRefreshInBackground(SCHEDULE_LIMIT)
       ELSE UNCHANGED <<cache, topRuns>>
    /\ IF recentCache.latest = NoState THEN ensureRecentRefreshInBackground
       ELSE UNCHANGED <<recentCache, recentRuns>>
    /\ returns' = {}
    /\ obs' = {}
    /\ UNCHANGED <<now, topCalls, recentCalls, agg>>

\* variant of the interval callback that refreshes only a cache without state
schedulerTickOnlyWithoutState ==
    /\ booted
    /\ IF cache.latest = NoState THEN ensureRefreshInBackground(SCHEDULE_LIMIT)
       ELSE UNCHANGED <<cache, topRuns>>
    /\ IF recentCache.latest = NoState THEN ensureRecentRefreshInBackground
       ELSE UNCHANGED <<recentCache, recentRuns>>
    /\ returns' = {}
    /\ obs' = {}
    /\ UNCHANGED <<now, booted, topCalls, recentCalls, agg>>

\* the callback of setInterval(..., refreshIntervalMs)
schedulerTick ==
    /\ booted
    /\ ensureRefreshInBackground(SCHEDULE_LIMIT)
    /\ ensureRecentRefreshInBackground
    /\ returns' = {}
    /\ obs' = {}
    /\ UNCHANGED <<now, booted, topCalls, recentCalls, agg>>

\* time passes: Date.now() moves to the next instant
clockTick ==
    /\ \E k \in 0..(MaxTicks - 1) : now = ClockInstant(k) /\ now' = ClockInstant(k + 1)
    /\ returns' = {}
    /\ obs' = {}
    /\ UNCHANGED <<booted, cache, recentCache, topRuns, recentRuns, topCalls, recentCalls, agg>>

----------------------------------------------------------------------------
(* Aggregator harness: one call of fetchCombinedBoosts on drawn feeds,     *)
(* and the nodes refreshTopBoostBubbles builds from its result             *)

HarnessItems == {Item1, Item2, Item3, Item4}
HarnessTopFeeds == {FailedResp} \cup {OkResp(q) : q \in SeqsUpTo(HarnessItems, MaxTopLen)}
HarnessLatestFeeds == {FailedResp} \cup {OkResp(q) : q \in SeqsUpTo(HarnessItems, MaxSuppLen)}
HarnessOtherFeeds == {FailedResp} \cup {OkResp(q) : q \in SeqsUpTo({Item2, Item4}, 1)}
HarnessProfileFeeds == {FailedResp, EmptyFeed, OkResp(<<Item4>>)}
HarnessLimits == (1..MaxReqLimit) \cup {SCHEDULE_LIMIT}
HarnessTokenRespOf == [b \in 1..SCHEDULE_LIMIT |-> OkResp(<<PairObj1, PairObj2>>)]

AggIdle == [pc |-> "idle",
            feeds |-> [top |-> FailedResp, latest |-> FailedResp,
                       ads |-> FailedResp, profiles |-> FailedResp],
            limit |-> 1, out |-> FailedResp, nodes |-> <<>>]

\* a token address of more than 12 characters
LongAddress == "t6abcdefghijk"

\* one more input: a primary list of 5 distinct tokens and a latest-boosts list of 3
\* tokens, 2 of which are in the primary list under another spelling of the chain
ScenarioItem(chainId, tokenAddress, description) ==
    [chainId |-> chainId, tokenAddress |-> tokenAddress, url |-> <<chainId>>,
     description |-> description, totalAmount |-> 1]
ScenarioFeeds ==
    [top |-> OkResp(<<ScenarioItem("sol", "t1", "a1"), ScenarioItem("sol", "t2", "a2"),
                      ScenarioItem("sol", "t3", "a3"), ScenarioItem("sol", "t4", "a4"),
                      ScenarioItem("sol", "t5", "a5")>>),
     latest |-> OkResp(<<ScenarioItem("SOL", "t2", "b2"), ScenarioItem("sol", LongAddress, "b6"),
                         ScenarioItem("SOL", "t4", "b4")>>),
     ads |-> EmptyFeed, profiles |-> EmptyFeed]

AggInit ==
    \/ \E t \in HarnessTopFeeds, l \in HarnessLatestFeeds, a \in HarnessOtherFeeds,
          p \in HarnessProfileFeeds,
          n \in HarnessLimits :
           agg = [AggIdle EXCEPT !.pc = "call",
                                 !.feeds = [top |-> t, latest |-> l, ads |-> a, profiles |-> p],
                                 !.limit = n]
    \/ agg = [AggIdle EXCEPT !.pc = "call", !.feeds = ScenarioFeeds, !.limit = SCHEDULE_LIMIT]

\* refreshTopBoostBubbles(limit) called directly on the drawn feeds, up to its first
\* await: it stamps cache.lastAttemptedAtMs and waits for fetchCombinedBoosts
AggCall ==
    /\ agg.pc = "call"
    /\ agg' = [agg EXCEPT !.pc = "waiting"]
    /\ cache' = [cache EXCEPT !.lastAttemptedAtMs = now]
    /\ UNCHANGED <<now, booted, recentCache, topRuns, recentRuns,
                   topCalls, recentCalls, returns, obs>>

\* time passes while the upstream requests of the call are pending (one instant at
\* most)
AggWait ==
    /\ agg.pc = "waiting"
    /\ cache.lastAttemptedAtMs = now
    /\ clockTick

\* the upstream answers arrive: fetchCombinedBoosts returns or rejects; on its result
\* the refresh builds the nodes, reads the clock again, publishes the state and clears
\* cache.lastError; a rejection leaves the cache as the call left it
AggSettle ==
    /\ agg.pc = "waiting"
    /\ LET out == fetchCombinedBoosts(agg.feeds, agg.limit)
           reqs == topPairRequests(out.items, agg.limit, HarnessTokenRespOf)
           nodes == IF out.ok
                    THEN topNodes(out.items, agg.limit, HarnessTokenRespOf,
                                  [r \in reqs |-> OkResp(<<PairObj3>>)])
                    ELSE <<>>
       IN  /\ agg' = [agg EXCEPT !.pc = "done", !.out = out, !.nodes = nodes]
           /\ cache' = IF out.ok
                       THEN [cache EXCEPT !.latest = [updatedAtMs |-> now, data |-> nodes],
                                          !.lastError = "null"]
                       ELSE cache
    /\ UNCHANGED <<now, booted, recentCache, topRuns, recentRuns,
                   topCalls, recentCalls, returns, obs>>

----------------------------------------------------------------------------
(* Specifications                                                          *)

Init == CacheInit /\ agg = AggIdle

Next ==
    \/ runSchedule
    \/ schedulerTick
    \/ clockTick
    \/ \E limit \in ReqLimits : getTopBoostBubbles("t1", limit)
    \/ getRecentBoostBubbles("r1")
    \/ \E s \in Slots : refreshTopBoostBubbles(s)
    \/ \E s \in Slots : recentBoostsArrive(s)
    \/ \E s \in Slots : recentPairsArrive(s)

\* both caches, one caller each, few upstream answers
Spec == Init /\ [][Next]_vars

\* both caches under the scheduler, one caller each, the top caller asking for one
\* or two nodes
NextSched ==
    \/ runSchedule
    \/ schedulerTick
    \/ clockTick
    \/ \E limit \in {1, 2} : getTopBoostBubbles("t1", limit)
    \/ getRecentBoostBubbles("r1")
    \/ \E s \in Slots : refreshTopBoostBubbles(s)
    \/ \E s \in Slots : recentBoostsArrive(s)
    \/ \E s \in Slots : recentPairsArrive(s)

SpecSched == Init /\ [][NextSched]_vars

NextTop ==
    \/ runSchedule
    \/ schedulerTick
    \/ clockTick
    \/ \E c \in TopCallers, limit \in ReqLimits : getTopBoostBubbles(c, limit)
    \/ \E s \in Slots : refreshTopBoostBubblesWide(s)

\* the top cache with concurrent callers and more upstream answers; the recent
\* refresh the scheduler starts stays pending
SpecTop == Init /\ [][NextTop]_vars

NextSettle ==
    \/ runSchedule
    \/ schedulerTick
    \/ clockTick
    \/ \E limit \in {1, 2} : getTopBoostBubbles("t1", limit)
    \/ \E s \in Slots : refreshTopBoostBubbles(s)

\* the top cache under the scheduler and one caller, every upstream call of a
\* running top refresh settling within its timeout: a refresh that is running does
\* not stay running forever
SpecSettle ==
    Init /\ [][NextSettle]_vars /\ \A s \in Slots : WF_vars(refreshTopBoostBubbles(s))

NextRecent ==
    \/ runSchedule
    \/ schedulerTick
    \/ clockTick
    \/ \E c \in RecentCallers : getRecentBoostBubbles(c)
    \/ \E s \in Slots : recentBoostsArriveWide(s)
    \/ \E s \in Slots : recentPairsArriveWide(s)

\* the recent cache with more upstream answers; the top refresh the scheduler
\* starts stays pending
SpecRecent == Init /\ [][NextRecent]_vars

\* the aggregator alone, on every combination of bounded feeds
InitAgg == CacheInit /\ AggInit
NextAgg == AggCall \/ AggWait \/ AggSettle
SpecAgg == InitAgg /\ [][NextAgg]_vars

\* a listing fetch alone: fetchDexscreenerList of one fetcher on every combination
\* of attempt outcomes
HarnessOutcomes ==
    {JsonOutcome(<<Item1>>), JsonOutcome(<<Item2>>), TimeoutOutcome, NetErrOutcome("ECONNRESET"),
     NetErrOutcome("ECONNREFUSED"), StatusOutcome, BadJsonOutcome}
HarnessFetchers == {"top", "latest"}

FetchInit ==
    \/ \E f \in HarnessFetchers, o \in [1..LIST_MAX_ATTEMPTS -> HarnessOutcomes] :
          agg = [pc |-> "fetch", fetcher |-> f, outcomes |-> o,
                 fetched |-> [ok |-> FALSE, items |-> <<>>, attempts |-> 0],
                 sleeps |-> <<>>]
    \/ \E f \in {"tokens", "pairs"},
          o \in [1..LIST_MAX_ATTEMPTS ->
                   {JsonOutcome(<<PairObj1>>), TimeoutOutcome, NetErrOutcome("ECONNRESET"),
                    StatusOutcome, BadJsonOutcome}] :
          agg = [pc |-> "fetch", fetcher |-> f, outcomes |-> o,
                 fetched |-> [ok |-> FALSE, items |-> <<>>, attempts |-> 0],
                 sleeps |-> <<>>]

FetchCall ==
    /\ agg.pc = "fetch"
    /\ agg' = [agg EXCEPT !.pc = "fetched",
                          !.fetched = fetchAttempts(agg.fetcher, agg.outcomes),
                          !.sleeps = fetchSleeps(agg.fetcher, agg.outcomes)]
    /\ UNCHANGED cacheVars

InitFetch == CacheInit /\ FetchInit
NextFetch == FetchCall
SpecFetch == InitFetch /\ [][NextFetch]_vars

\* the top cache over the retrying fetch: the primary list of every refresh comes
\* from up to three HTTP attempts, whose outcomes the step records
PrimaryOutcomes == {JsonOutcome(<<Item1>>), TimeoutOutcome, StatusOutcome}

refreshTopBoostBubblesOverHttp(s) ==
    \E o \in [1..LIST_MAX_ATTEMPTS -> PrimaryOutcomes] :
        LET fetched == fetchDexscreenerList(o, "top")
        IN  /\ topRefreshRuns(s, FeedsWithTop({ListingAnswer(fetched)}),
                              CacheTokenResps, CachePairResps)
            /\ agg' = [pc |-> "fetched", fetcher |-> "top", outcomes |-> o,
                       fetched |-> fetched]

NextHttp ==
    \/ runSchedule
    \/ schedulerTick
    \/ clockTick
    \/ \E limit \in ReqLimits : getTopBoostBubbles("t1", limit)
    \/ \E s \in Slots : refreshTopBoostBubblesOverHttp(s)

SpecHttp == Init /\ [][NextHttp]_vars

\* enrichment under partial failure: the primary list has two tokens, each with a
\* pair address in its url; every token batch and every pair lookup of a refresh
\* either fails or answers with the pairs the upstream has for it
Item6 == [chainId |-> "sol", tokenAddress |-> "Bb", url |-> <<"sol", "P3">>,
          description |-> "d6", totalAmount |-> 6]
PairObjSym == [chainId |-> "sol", pairAddress |-> "P1", baseAddress |-> "Aa",
               name |-> Undef, symbol |-> "ABC", imageUrl |-> Undef, header |-> Undef,
               marketCap |-> NoNum, fdv |-> NoNum, liquidityUsd |-> 10]
PairObjCap == [chainId |-> "sol", pairAddress |-> "P1", baseAddress |-> "Aa",
               name |-> Undef, symbol |-> Undef, imageUrl |-> Undef, header |-> Undef,
               marketCap |-> 1000000, fdv |-> NoNum, liquidityUsd |-> 10]
EnrichFeeds == [top |-> OkResp(<<Item1, Item6>>), latest |-> EmptyFeed,
                ads |-> EmptyFeed, profiles |-> EmptyFeed]

\* /tokens/v1 answers for a batch: the pairs whose base token is in the batch
TokenAnswers(batch) ==
    {FailedResp,
     OkResp(SelectSeq(<<PairObjSym, PairObj3>>,
                      LAMBDA p : \E i \in 1..Len(batch) :
                                    Lower(batch[i]) = Lower(p.baseAddress)))}
\* /latest/dex/pairs answers for a request: the pair of that address
PairAnswers(req) ==
    {FailedResp,
     OkResp(SelectSeq(<<PairObjCap, PairObj3>>,
                      LAMBDA p : Lower(p.pairAddress) = Lower(req[2])))}

refreshTopBoostBubblesEnriching(s) ==
    /\ topRuns[s].pc = "running"
    /\ LET limit == topRuns[s].limit
           boosts == fetchCombinedBoosts(EnrichFeeds, limit)
           batches == tokenBatches([i \in 1..Len(boosts.items) |-> boosts.items[i].tokenAddress])
       IN  \E tokenRespOf \in [BatchIds(boosts.items) ->
                                 UNION {TokenAnswers(batches[b]) : b \in 1..Len(batches)}] :
             /\ \A b \in 1..Len(batches) : tokenRespOf[b] \in TokenAnswers(batches[b])
             /\ LET reqs == topPairRequests(boosts.items, limit, tokenRespOf)
                IN  \E pairRespOf \in [reqs -> UNION {PairAnswers(r) : r \in reqs}] :
                      /\ \A r \in reqs : pairRespOf[r] \in PairAnswers(r)
                      /\ topRefreshSucceeds(s, topNodes(boosts.items, limit,
                                                        tokenRespOf, pairRespOf))
                      /\ agg' = [pc |-> "enriched", limit |-> limit, boosts |-> boosts.items,
                                 tokenRespOf |-> tokenRespOf, pairRespOf |-> pairRespOf]
    /\ UNCHANGED <<now, booted, recentCache, recentRuns, recentCalls>>

NextEnrich ==
    \/ runSchedule
    \/ schedulerTick
    \/ clockTick
    \/ \E limit \in ReqLimits : getTopBoostBubbles("t1", limit)
    \/ \E s \in Slots : refreshTopBoostBubblesEnriching(s)

SpecEnrich == Init /\ [][NextEnrich]_vars

\* retention of the recent registry: no callers, the primary feed changes between
\* cycles (four registry keys in all), token batches answer or fail, and the clock moves by half the
\* retention TTL at a time; the step that publishes records the registry it swept
clockHalfTtl ==
    /\ now < (MaxTicks + 1) * (RECENT_TTL_MS \div 2)
    /\ now' = now + RECENT_TTL_MS \div 2
    /\ returns' = {}
    /\ obs' = {}
    /\ UNCHANGED <<booted, cache, recentCache, topRuns, recentRuns, topCalls, recentCalls, agg>>

recentPairsArriveRecorded(s) ==
    /\ recentPairsRun(s, CachePairResps)
    /\ agg' = [pc |-> "swept", startedAtMs |-> recentRuns[s].startedAtMs,
               before |-> MapValues(recentCache.entries)]

\* one step of the recent cache under the scheduler, on the given upstream answers
NextRetentionOn(Feeds, TokenResps) ==
    \/ runSchedule
    \/ schedulerTick
    \/ clockHalfTtl
    \/ \E s \in Slots : recentBoostsArriveFrom(s, Feeds, TokenResps)
    \/ \E s \in Slots : recentPairsArriveRecorded(s)

\* four registry keys, no token metadata
SpecRetention ==
    Init /\ [][NextRetentionOn(FeedsWithTop({OkResp(<<Item1>>), OkResp(<<Item6>>),
                                             OkResp(<<Item5, Item4>>)}),
                               CacheTokenResps)]_vars

\* two registry keys, token batches that answer or fail
SpecMetadata ==
    Init /\ [][NextRetentionOn(FeedsWithTop({OkResp(<<Item1>>), OkResp(<<Item6>>)}),
                               {FailedResp, OkResp(<<PairObjSym>>)})]_vars

\* the recent cache observed cycle by cycle: no callers; the primary feed fails or
\* lists two tokens (under one pair address or under two), the latest boosts
\* list none or two more; the step that upserts records the feeds, the aggregated
\* boosts and the registry it found, the step that publishes the registry it swept
Item7 == [chainId |-> "eth", tokenAddress |-> "Bb", url |-> <<"eth", "P2">>,
          description |-> "d7", totalAmount |-> 7]
ObservedFeeds ==
    {[top |-> t, latest |-> l, ads |-> EmptyFeed, profiles |-> EmptyFeed] :
       t \in {FailedResp, OkResp(<<Item1, Item3>>), OkResp(<<Item1, Item6>>)},
       l \in {EmptyFeed, OkResp(<<Item4, Item7>>)}}

recentBoostsArriveObserved(s) ==
    /\ recentRuns[s].pc = "boosts"
    /\ \E feeds \in ObservedFeeds :
         LET boosts == fetchCombinedBoosts(feeds, RECENT_CAPACITY)
         IN  /\ IF ~boosts.ok
                THEN recentRefreshFails(s)
                ELSE \E tokenRespOf \in [BatchIds(boosts.items) -> CacheTokenResps] :
                       recentUpsert(s, boosts.items, tokenRespOf)
             /\ agg' = [pc |-> IF boosts.ok THEN "observed" ELSE "failed",
                        feeds |-> feeds, boosts |-> boosts.items,
                        startedAtMs |-> recentRuns[s].startedAtMs,
                        atStart |-> recentRuns[s].entriesAtStart,
                        latestAtStart |-> recentRuns[s].latestAtStart,
                        before |-> <<>>]
    /\ UNCHANGED <<now, booted, cache, topRuns, topCalls>>

recentPairsArriveObserved(s) ==
    /\ recentPairsRun(s, CachePairResps)
    /\ agg' = [agg EXCEPT !.pc = "published", !.before = MapValues(recentCache.entries)]

NextObserve ==
    \/ runSchedule
    \/ schedulerTick
    \/ clockHalfTtl
    \/ \E s \in Slots : recentBoostsArriveObserved(s)
    \/ \E s \in Slots : recentPairsArriveObserved(s)

SpecObserve == Init /\ [][NextObserve]_vars

\* the top cache with two callers, each refresh recording the feeds it aggregated
\* when it publishes: `agg` describes the refresh that produced cache.latest
refreshTopBoostBubblesObserved(s) ==
    /\ \E feeds \in WideTopFeeds :
         /\ topRefreshRuns(s, {feeds}, CacheTokenResps, WidePairResps)
         /\ agg' = IF fetchCombinedBoosts(feeds, topRuns[s].limit).ok
                   THEN [pc |-> "refreshed", feeds |-> feeds, limit |-> topRuns[s].limit]
                   ELSE agg

NextJoin ==
    \/ runSchedule
    \/ schedulerTick
    \/ clockTick
    \/ \E c \in TopCallers, limit \in ReqLimits : getTopBoostBubbles(c, limit)
    \/ \E s \in Slots : refreshTopBoostBubblesObserved(s)

SpecJoin == Init /\ [][NextJoin]_vars

\* mapLimit alone: one call on n items under a limit; the invocations of fn settle in
\* any order; `slow` is the index of an item whose fetch may take arbitrarily long
\* (n when there is none)
BATCH_CONCURRENCY == 3
PAIR_CONCURRENCY == 6

\* what fn resolves with for an item
fnResult(item) == [of |-> item]

\* variant that starts one worker per item
poolWorkerCountPerItem(limit, n) == n

\* mapLimit: `Math.min(limit, items.length)` workers
poolWorkerCount(limit, n) == IF limit < n THEN limit ELSE n

\* variant of a static partition: worker w takes the items w-1, w-1+k, w-1+2k, ...
workerPullStatic(pool, w) ==
    LET i == IF pool.workers[w].st = "new" THEN w - 1
             ELSE pool.workers[w].i + Len(pool.workers)
    IN  IF i >= pool.n
        THEN [pool EXCEPT !.workers[w] = [st |-> "done", i |-> i]]
        ELSE [pool EXCEPT !.workers[w] = [st |-> "busy", i |-> i],
                          !.calls = Append(@, i)]

\* a worker at the head of its loop: `const i = nextIndex; nextIndex++;
\* const item = items[i]; if (item === undefined) return;` and the call of fn(item)
workerPull(pool, w) ==
    LET i == pool.nextIndex
    IN  IF i >= pool.n
        THEN [pool EXCEPT !.nextIndex = i + 1,
                          !.workers[w] = [st |-> "done", i |-> i]]
        ELSE [pool EXCEPT !.nextIndex = i + 1,
                          !.workers[w] = [st |-> "busy", i |-> i],
                          !.calls = Append(@, i)]

RECURSIVE workersStart(_, _)
\* `.map(async () => {...})`: every worker runs to its first await, in order
workersStart(pool, w) ==
    IF w > Len(pool.workers) THEN pool
    ELSE workersStart(workerPull(pool, w), w + 1)

\* variant that resolves as soon as one worker has returned
poolSettledAny(pool) == \E w \in 1..Len(pool.workers) : pool.workers[w].st = "done"

\* `await Promise.all(workers)`: every worker has returned
poolSettled(pool) == \A w \in 1..Len(pool.workers) : pool.workers[w].st = "done"

\* mapLimit resolves with `results` once the workers have all returned
poolResolve(pool) == IF poolSettled(pool) THEN [pool EXCEPT !.pc = "resolved"] ELSE pool

PoolInit ==
    \E n \in 0..MaxPoolItems, slow \in 0..MaxPoolItems,
       use \in {[kind |-> "tokens", limit |-> BATCH_CONCURRENCY],
                [kind |-> "pairs", limit |-> PAIR_CONCURRENCY],
                [kind |-> "any", limit |-> 1], [kind |-> "any", limit |-> 2]} :
        /\ slow <= n
        /\ agg = [pc |-> "call", kind |-> use.kind, limit |-> use.limit, n |-> n,
                  items |-> [i \in 0..(n - 1) |-> i + 1], slow |-> slow, nextIndex |-> 0,
                  workers |-> <<>>, calls |-> <<>>,
                  results |-> [i \in 0..(n - 1) |-> [of |-> 0]]]

\* mapLimit(items, limit, fn) up to `await Promise.all(workers)`
mapLimitCall ==
    /\ agg.pc = "call"
    /\ agg' = poolResolve(workersStart(
                [agg EXCEPT !.pc = "running",
                            !.workers = [w \in 1..poolWorkerCount(agg.limit, agg.n) |->
                                           [st |-> "new", i |-> 0]]], 1))
    /\ UNCHANGED cacheVars

\* the invocation of fn awaited by worker w settles: `results[i] = await fn(item)`,
\* and the worker goes round its loop
mapLimitFnSettles(w) ==
    /\ agg.pc = "running"
    /\ w \in 1..Len(agg.workers)
    /\ agg.workers[w].st = "busy"
    /\ LET i == agg.workers[w].i
       IN  agg' = poolResolve(workerPull(
                     [agg EXCEPT !.results[i] = fnResult(agg.items[i])], w))
    /\ UNCHANGED cacheVars

\* the same for any item but the slow one
mapLimitFastFnSettles ==
    \E w \in 1..MaxPoolItems :
        /\ w \in 1..Len(agg.workers)
        /\ agg.workers[w].i # agg.slow
        /\ mapLimitFnSettles(w)

InitPool == CacheInit /\ PoolInit
NextPool ==
    \/ mapLimitCall
    \/ \E w \in 1..MaxPoolItems : mapLimitFnSettles(w)
SpecPool == InitPool /\ [][NextPool]_vars
\* every fetch but the slow one settles in the end (httpsGetJson has a hard timeout)
SpecPoolFair == SpecPool /\ WF_vars(mapLimitFastFnSettles)

\* the pair lookups of one refresh: the refresh hands its pairs to fetchPairsMetaMap
\* (top) or fetchPairsMetaByPairKey (recent) once; the pairs differ in letter case
HarnessPairs ==
    {[chainId |-> "sol", pairAddress |-> "P1"], [chainId |-> "sol", pairAddress |-> "p1"],
     [chainId |-> "SOL", pairAddress |-> "P1"], [chainId |-> "sol", pairAddress |-> "P2"],
     [chainId |-> "eth", pairAddress |-> "P1"]}

LookupInit ==
    \E fn \in {"fetchPairsMetaMap", "fetchPairsMetaByPairKey"},
       pairs \in SeqsUpTo(HarnessPairs, MaxPairs) :
      agg = [pc |-> "pairs", fn |-> fn, pairs |-> pairs, lookups |-> <<>>]

LookupCall ==
    /\ agg.pc = "pairs"
    /\ agg' = [agg EXCEPT !.pc = "looked", !.lookups = pairLookups(agg.pairs)]
    /\ UNCHANGED cacheVars

InitLookup == CacheInit /\ LookupInit
NextLookup == LookupCall
SpecLookup == InitLookup /\ [][NextLookup]_vars

\* one token batch: the response lists up to MaxBatchPairs pairs, each with a base
\* token (two spellings of one address, and another) and a liquidity or none; the
\* pair address tells the position in the response
BatchPairAddr(i) == CASE i = 1 -> "P1" [] i = 2 -> "P2" [] i = 3 -> "P3" [] OTHER -> "P4"
BatchPairKinds == [baseAddress : {"Aa", "aa", "Bb"}, liquidityUsd : {NoNum, 0, 10, 20}]
BatchPairs(kinds) ==
    [i \in 1..Len(kinds) |->
       [PairObj1 EXCEPT !.pairAddress = BatchPairAddr(i),
                        !.baseAddress = kinds[i].baseAddress,
                        !.liquidityUsd = kinds[i].liquidityUsd]]

BatchInit ==
    \E kinds \in SeqsUpTo(BatchPairKinds, MaxBatchPairs) :
      agg = [pc |-> "batch", pairs |-> BatchPairs(kinds), out |-> <<>>]

BatchCall ==
    /\ agg.pc = "batch"
    /\ agg' = [agg EXCEPT !.pc = "batched", !.out = fetchBatch(OkResp(agg.pairs))]
    /\ UNCHANGED cacheVars

InitBatch == CacheInit /\ BatchInit
NextBatch == BatchCall
SpecBatch == InitBatch /\ [][NextBatch]_vars

\* publication alone: no callers, the scheduler starts every refresh, the primary
\* feed of the top cache has two tokens and that of the recent cache changes
\* between cycles
PublishTopFeeds == FeedsWithTop({OkResp(<<Item1, Item3>>)})
PublishRecentFeeds == FeedsWithTop({OkResp(<<Item1>>), OkResp(<<Item5>>)})

NextPublish ==
    \/ runSchedule
    \/ schedulerTick
    \/ clockTick
    \/ \E s \in Slots : topRefreshSettles(s, PublishTopFeeds, CacheTokenResps, CachePairResps)
    \/ \E s \in Slots : recentBoostsArriveFrom(s, PublishRecentFeeds, CacheTokenResps)
    \/ \E s \in Slots : recentPairsArriveFrom(s, CachePairResps)

SpecPublish == Init /\ [][NextPublish]_vars

----------------------------------------------------------------------------
(* Properties                                                              *)

\* the token identity of a record: (chainId, tokenAddress), case-insensitively
IdentityOf(r) == <<Lower(r.chainId), Lower(r.tokenAddress)>>

\* the age of a published state at the current instant
AgeOf(state) == now - state.updatedAtMs

\* C1: in every reachable state each cache has at most one refresh running.
C1_AtMostOneRefresh ==
    /\ Cardinality(Running(topRuns)) <= 1
    /\ Cardinality(Running(recentRuns)) <= 1
    /\ (cache.inFlight = 0) = (Running(topRuns) = {})
    /\ (recentCache.inFlight = 0) = (Running(recentRuns) = {})

\* a refresh of each cache is running, started by one trigger, while a caller of the
\* top cache has joined it and the scheduler has ticked again at a later instant
C1_Witness ==
    /\ Cardinality(Running(topRuns)) = 1
    /\ Cardinality(Running(recentRuns)) = 1
    /\ topCalls["t1"].pc = "waiting"
    /\ topCalls["t1"].path = "joined"
    /\ now > topRuns[cache.inFlight].startedAtMs

\* the zones of a cache at the current instant, for a request of `limit` records
\* (the recent cache has no limit: its requests count as limit 0)
FreshZone(latest, limit) ==
    latest # NoState /\ AgeOf(latest) <= FRESH_TTL_MS /\ Len(latest.data) >= limit
StaleZone(latest, limit) ==
    /\ latest # NoState
    /\ AgeOf(latest) > FRESH_TTL_MS
    /\ AgeOf(latest) <= STALE_TTL_MS
    /\ Len(latest.data) >= limit
ExpiredZone(latest, limit) ==
    latest = NoState \/ AgeOf(latest) > STALE_TTL_MS \/ Len(latest.data) < limit

\* this step is a call of getTopBoostBubbles(limit) by caller c
TopCallStep(c, limit) ==
    /\ topCalls[c].pc = "idle"
    /\ \/ topCalls'[c].pc = "waiting" /\ topCalls'[c].limit = limit
       \/ \E r \in returns' : r.cache = "top" /\ r.caller = c /\ r.limit = limit

\* this step is a call of getRecentBoostBubbles by caller c
RecentCallStep(c) ==
    /\ recentCalls[c].pc = "idle"
    /\ \/ recentCalls'[c].pc = "waiting"
       \/ \E r \in returns' : r.cache = "recent" /\ r.caller = c

\* this step starts a refresh of the cache
TopRefreshStarts == Running(topRuns') \ Running(topRuns) # {}
RecentRefreshStarts == Running(recentRuns') \ Running(recentRuns) # {}

C2_WaitersShareTheRefresh ==
    \A c \in TopCallers :
        topCalls[c].pc = "waiting" =>
            /\ cache.inFlight # 0
            /\ topCalls[c].awaiting = cache.inFlight
            /\ Running(topRuns) = {cache.inFlight}

C2_ExpiredCallWaits ==
    \A c \in TopCallers, limit \in ReqLimits :
        TopCallStep(c, limit) /\ ExpiredZone(cache.latest, limit) =>
            /\ topCalls'[c].pc = "waiting"
            /\ returns' = {}
            /\ Cardinality(Running(topRuns')) = 1
            /\ (cache.inFlight # 0 => topRuns' = topRuns /\ cache' = cache)

C2_SettlementReachesAll ==
    \A s \in Slots :
        topRuns[s].pc = "running" /\ topRuns'[s].pc = "free" =>
            LET waiters == {c \in TopCallers :
                              topCalls[c].pc = "waiting" /\ topCalls[c].awaiting = s}
            IN  /\ {r.caller : r \in returns'} = waiters
                /\ \A c \in waiters : topCalls'[c].pc = "idle"
                /\ \/ \A r \in returns' :
                        /\ r.ok /\ ~r.stale
                        /\ r.state = cache'.latest
                        /\ r.state.updatedAtMs = now
                   \/ \A r \in returns' : ~r.ok

\* C2: any number of getTopBoostBubbles calls made while the state is expired share
\* exactly one refresh; when it succeeds they all get the same newly published state
\* with stale=false, and when it fails they all get the failure.
C2_ExpiredCallsShareOneRefresh ==
    /\ []C2_WaitersShareTheRefresh
    /\ [][C2_ExpiredCallWaits /\ C2_SettlementReachesAll]_vars

\* two callers that waited on one refresh both got its state, not stale
C2_Witness ==
    Cardinality({r \in returns : r.cache = "top" /\ r.ok /\ ~r.stale
                                 /\ r.path \in {"started", "joined"}}) = 2

\* C3 (as stated): a get call is rejected only when the cache has no published state.
C3_RejectedOnlyWithoutState ==
    \A r \in returns :
        ~r.ok => IF r.cache = "top" THEN cache.latest = NoState
                 ELSE recentCache.latest = NoState

\* C4: a refresh that fails leaves `latest` as it was when the refresh started and
\* records the error; the failure goes only to the calls that are waiting on that
\* refresh, never to a caller that was served stale data.
C4_FailedRefreshKeepsState ==
    [][\A s \in Slots :
         /\ Settled("top", s, FALSE) \in obs' =>
               /\ cache'.latest = topRuns[s].latestAtStart
               /\ cache'.latest = cache.latest
               /\ cache'.lastError = "err"
               /\ \A r \in returns' :
                      /\ ~r.ok /\ ~r.stale
                      /\ topCalls[r.caller].pc = "waiting"
                      /\ topCalls[r.caller].awaiting = s
                      /\ r.path \in {"started", "joined"}
         /\ Settled("recent", s, FALSE) \in obs' =>
               /\ recentCache'.latest = recentRuns[s].latestAtStart
               /\ recentCache'.latest = recentCache.latest
               /\ recentCache'.lastError = "err"
               /\ \A r \in returns' :
                      /\ ~r.ok /\ ~r.stale
                      /\ recentCalls[r.caller].pc = "waiting"
                      /\ recentCalls[r.caller].awaiting = s
                      /\ r.path \in {"started", "joined"}]_vars

\* a background refresh of the top cache has just failed with nobody waiting on it,
\* and the state published before it is still there
C4_Witness ==
    /\ \E s \in Slots : Settled("top", s, FALSE) \in obs
    /\ returns = {}
    /\ cache.latest # NoState
    /\ cache.lastError = "err"
    /\ topCalls["t1"].pc = "idle"

\* C5: a get call in the stale zone returns at once the current state with stale=true;
\* it starts a background refresh if none is in flight and none otherwise, so that
\* exactly one refresh is running after it.
C5_StaleServedWithOneRefresh ==
    [][/\ \A c \in TopCallers, limit \in ReqLimits :
            TopCallStep(c, limit) /\ StaleZone(cache.latest, limit) =>
                /\ \E r \in returns' :
                       /\ returns' = {r}
                       /\ r.ok /\ r.stale /\ r.state = cache.latest
                /\ topCalls'[c].pc = "idle"
                /\ cache'.latest = cache.latest
                /\ Cardinality(Running(topRuns')) = 1
                /\ (cache.inFlight # 0 => topRuns' = topRuns /\ cache' = cache)
                /\ (cache.inFlight = 0 => TopRefreshStarts /\ cache'.inFlight # 0)
       /\ \A c \in RecentCallers :
            RecentCallStep(c) /\ StaleZone(recentCache.latest, 0) =>
                /\ \E r \in returns' :
                       /\ returns' = {r}
                       /\ r.ok /\ r.stale /\ r.state = recentCache.latest
                /\ recentCalls'[c].pc = "idle"
                /\ recentCache'.latest = recentCache.latest
                /\ Cardinality(Running(recentRuns')) = 1
                /\ (recentCache.inFlight # 0 =>
                        recentRuns' = recentRuns /\ recentCache' = recentCache)
                /\ (recentCache.inFlight = 0 =>
                        RecentRefreshStarts /\ recentCache'.inFlight # 0)]_vars

\* a call of the top cache was just served stale data and has started the refresh
\* that is now running
C5_Witness ==
    /\ cache.inFlight # 0
    /\ \E r \in returns :
          /\ r.cache = "top" /\ r.ok /\ r.stale
          /\ topRuns[cache.inFlight].limit = r.limit
          /\ topRuns[cache.inFlight].startedAtMs = now
          /\ AgeOf(r.state) > FRESH_TTL_MS

\* C6: a get call in the fresh zone returns the current state with stale=false and
\* changes nothing: latest, inFlight, lastError and lastAttemptedAtMs stay as they are.
C6_FreshServedUnchanged ==
    [][/\ \A c \in TopCallers, limit \in ReqLimits :
            TopCallStep(c, limit) /\ FreshZone(cache.latest, limit) =>
                /\ \E r \in returns' :
                       /\ returns' = {r}
                       /\ r.ok /\ ~r.stale /\ r.state = cache.latest
                /\ UNCHANGED <<cache, topRuns, topCalls>>
       /\ \A c \in RecentCallers :
            RecentCallStep(c) /\ FreshZone(recentCache.latest, 0) =>
                /\ \E r \in returns' :
                       /\ returns' = {r}
                       /\ r.ok /\ ~r.stale /\ r.state = recentCache.latest
                /\ UNCHANGED <<recentCache, recentRuns, recentCalls>>]_vars

\* a call of the top cache was just served from a fresh state, no refresh running
C6_Witness ==
    /\ cache.inFlight = 0
    /\ \E r \in returns :
          /\ r.cache = "top" /\ r.ok /\ ~r.stale /\ r.path = "fresh"
          /\ AgeOf(r.state) <= FRESH_TTL_MS
          /\ Len(r.state.data) >= r.limit

\* C7 (as stated): once a state is published, no getTopBoostBubbles call, whatever
\* its limit, starts a refresh while the age of the state is at most freshTTL.
C7_NoRefreshWhileFreshAnyLimit ==
    [][\A c \in TopCallers, limit \in ReqLimits :
         /\ TopCallStep(c, limit)
         /\ cache.latest # NoState
         /\ AgeOf(cache.latest) <= FRESH_TTL_MS
         => ~TopRefreshStarts]_vars

\* C7: once a state is published, no getTopBoostBubbles call whose limit is at most
\* the number of cached records starts a refresh while the age of the state is at
\* most freshTTL.
C7_NoRefreshWhileFreshWithinLength ==
    [][\A c \in TopCallers, limit \in ReqLimits :
         /\ TopCallStep(c, limit)
         /\ cache.latest # NoState
         /\ AgeOf(cache.latest) <= FRESH_TTL_MS
         /\ limit <= Len(cache.latest.data)
         => ~TopRefreshStarts]_vars

\* a call asking for exactly as many records as are cached was served from the fresh
\* state and no refresh is running
C7_Witness ==
    /\ cache.inFlight = 0
    /\ \E r \in returns :
          /\ r.cache = "top" /\ r.ok /\ r.path = "fresh"
          /\ r.limit = Len(r.state.data)
          /\ r.limit > 1

\* the registry as the last completed refresh left it: a refresh that has inserted its
\* boosts but not yet published works on the live registry
CommittedEntries ==
    IF \E s \in Slots : recentRuns[s].pc = "pairs"
    THEN recentRuns[CHOOSE s \in Slots : recentRuns[s].pc = "pairs"].entriesAtStart
    ELSE recentCache.entries

\* C8: every state a get call returns is, in full, the state published by one
\* completed refresh; for the recent cache this holds although a running refresh
\* changes the registry in place.
C8_ReturnsPublishedState ==
    /\ \A r \in returns :
          r.ok => /\ r.state # NoState
                  /\ r.state = IF r.cache = "top" THEN cache.latest ELSE recentCache.latest
    /\ recentCache.latest # NoState =>
          recentCache.latest.data = recentNodes(CommittedEntries)

\* a call of the recent cache was served while a running refresh had already changed
\* the registry
C8_Witness ==
    /\ \E s \in Slots : recentRuns[s].pc = "pairs"
    /\ recentCache.entries # CommittedEntries
    /\ \E r \in returns : r.cache = "recent" /\ r.ok /\ r.stale
    /\ recentNodes(recentCache.entries) # recentCache.latest.data

\* no two records of the sequence have the same token identity
DistinctIdentities(records) ==
    \A i, j \in 1..Len(records) :
        i # j => IdentityOf(records[i]) # IdentityOf(records[j])

\* C9: the list fetchCombinedBoosts(limit) returns, and the top snapshot built from
\* it, have at most `limit` records and no two records with the same (chainId,
\* tokenAddress) compared case-insensitively, whatever the four feeds hold.
C9_AggregatedListBoundedAndDistinct ==
    agg.pc = "done" /\ agg.out.ok =>
        /\ Len(agg.out.items) <= agg.limit
        /\ DistinctIdentities(agg.out.items)
        /\ Len(agg.nodes) <= agg.limit
        /\ DistinctIdentities(agg.nodes)

\* an aggregation that dropped a record differing only in case from an earlier one,
\* without reaching the limit
C9_Witness ==
    /\ agg.pc = "done"
    /\ agg.out.ok
    /\ agg.feeds.top.ok /\ agg.feeds.latest.ok
    /\ Len(agg.out.items) >= 2
    /\ Len(agg.out.items) < agg.limit
    /\ Len(agg.nodes) = Len(agg.out.items)
    /\ \E i \in 1..Len(agg.feeds.top.items), j \in 1..Len(agg.feeds.latest.items) :
          /\ IdentityOf(agg.feeds.top.items[i]) = IdentityOf(agg.feeds.latest.items[j])
          /\ agg.feeds.top.items[i].tokenAddress # agg.feeds.latest.items[j].tokenAddress

\* C10 (as stated): the registry of the recent window holds at most one entry per
\* token identity, and the published recent list has no two records of one identity.
C10_OneEntryPerIdentity ==
    /\ DistinctIdentities([i \in 1..Len(recentCache.entries) |->
                             recentCache.entries[i][2].boost])
    /\ DistinctIdentities(recentCache.latest.data)

\* the ranks of a published list are the positions of its records
RanksAreExactlyPositions(data) == \A i \in 1..Len(data) : data[i].rank = i

\* C11: in every state published by a refresh of either cache the record at position
\* i has rank i; the ranks come from the positions of this refresh, not from an
\* earlier snapshot.
C11_RanksFollowPosition ==
    /\ cache.latest # NoState => RanksAreExactlyPositions(cache.latest.data)
    /\ recentCache.latest # NoState => RanksAreExactlyPositions(recentCache.latest.data)

\* both caches have published two records or more, and the recent list opens with an
\* entry that entered the registry after the entry now at position 2
C11_Witness ==
    /\ cache.latest # NoState
    /\ Len(cache.latest.data) = 2
    /\ recentCache.latest # NoState
    /\ Len(recentCache.latest.data) = 2
    /\ Len(recentCache.entries) = 2
    /\ recentCache.latest.data[2].id = recentCache.entries[1][1]
    /\ recentCache.latest.data[1].id = recentCache.entries[2][1]

\* what each source hands to the aggregator: its list, or nothing when it failed
SourceResults(feeds) ==
    fetchTopBoostsFromDexscreener(feeds.top).items
      \o catchEmpty(fetchLatestBoostsFromDexscreener(feeds.latest))
      \o catchEmpty(fetchLatestAdsFromDexscreener(feeds.ads))
      \o catchEmpty(fetchLatestTokenProfilesFromDexscreener(feeds.profiles))

\* the records of `records` whose identity does not occur at an earlier position, in
\* order, at most `limit` of them
FirstOccurrences(records, limit) ==
    LET kept == {i \in 1..Len(records) :
                   \A j \in 1..(i - 1) : IdentityOf(records[j]) # IdentityOf(records[i])}
        nth(k) == CHOOSE i \in kept : Cardinality({j \in kept : j < i}) = k - 1
        n == IF Cardinality(kept) < limit THEN Cardinality(kept) ELSE limit
    IN  [k \in 1..n |-> records[nth(k)]]

\* C12: the aggregated list is the concatenation of the source results in the order
\* top, latest boosts, ads, token profiles, without the records whose identity
\* occurred earlier, cut to the limit; so a token of both the primary and a
\* supplementary source keeps the primary's record.
C12_AggregationKeepsFirstOccurrence ==
    agg.pc = "done" /\ agg.out.ok =>
        agg.out.items = FirstOccurrences(SourceResults(agg.feeds), agg.limit)

\* 5 distinct primary tokens and 3 supplementary ones, 2 of them duplicates, gave 6
\* records: the 5 of the primary as reported by it, then the new one
C12_Witness ==
    /\ agg.pc = "done"
    /\ agg.feeds = ScenarioFeeds
    /\ agg.out.ok
    /\ Len(agg.out.items) = 6
    /\ SubSeq(agg.out.items, 1, 5) = ScenarioFeeds.top.items
    /\ agg.out.items[6] = ScenarioFeeds.latest.items[2]

\* the feeds with every failed supplementary answer replaced by an empty list
FailedAsEmpty(resp) == IF resp.ok THEN resp ELSE OkResp(<<>>)
SupplementaryFailedAsEmpty(feeds) ==
    [top |-> feeds.top, latest |-> FailedAsEmpty(feeds.latest),
     ads |-> FailedAsEmpty(feeds.ads), profiles |-> FailedAsEmpty(feeds.profiles)]

\* C13: the aggregation of a refresh fails exactly when the primary listing fetch
\* fails; failed supplementary fetches change nothing compared with empty answers.
C13_OnlyPrimaryFailureFails ==
    agg.pc = "done" =>
        /\ agg.out.ok = fetchTopBoostsFromDexscreener(agg.feeds.top).ok
        /\ agg.out.ok =>
              /\ agg.out = fetchCombinedBoosts(SupplementaryFailedAsEmpty(agg.feeds), agg.limit)
              /\ Len(agg.nodes) = Len(agg.out.items)

\* an aggregation succeeded although two supplementary fetches failed, and the third
\* contributed a record
C13_Witness ==
    /\ agg.pc = "done"
    /\ agg.out.ok
    /\ ~agg.feeds.latest.ok
    /\ ~agg.feeds.profiles.ok
    /\ agg.feeds.ads.ok
    /\ Len(agg.feeds.top.items) >= 1
    /\ Len(agg.out.items) > Len(agg.feeds.top.items)

\* every HTTP attempt of the primary fetch recorded by the step timed out
AllAttemptsTimedOut(fetch) ==
    /\ fetch.pc = "fetched"
    /\ \A k \in 1..LIST_MAX_ATTEMPTS : fetch.outcomes[k].kind = "timeout"

\* C14: when the primary listing fetch times out on all 3 attempts the refresh is
\* rejected: every getTopBoostBubbles call waiting on it fails, none gets a state,
\* lastError is set, and a cache without state stays without state.
C14_TimeoutsSurfaceAsFailure ==
    [][\A s \in Slots :
          /\ topRuns[s].pc = "running"
          /\ topRuns'[s].pc = "free"
          /\ AllAttemptsTimedOut(agg')
          => /\ agg'.fetched.attempts = LIST_MAX_ATTEMPTS
             /\ obs' = {Settled("top", s, FALSE)}
             /\ cache'.lastError = "err"
             /\ cache'.latest = cache.latest
             /\ {r.caller : r \in returns'} =
                   {c \in TopCallers : topCalls[c].pc = "waiting" /\ topCalls[c].awaiting = s}
             /\ \A r \in returns' : ~r.ok /\ r.state = NoState]_vars

\* a call made without any cached state has just been rejected after three timeouts
C14_Witness ==
    /\ AllAttemptsTimedOut(agg)
    /\ agg.fetched.attempts = 3
    /\ cache.latest = NoState
    /\ cache.lastError = "err"
    /\ \E r \in returns : r.cache = "top" /\ r.caller = "t1" /\ ~r.ok /\ r.path = "started"

\* the k-th attempt of the recorded fetch ended with a usable list
AttemptSucceeded(fetch, k) ==
    /\ fetch.outcomes[k].kind = "json"
    /\ SchemaAccepts(fetch.fetcher, fetch.outcomes[k].items)

\* the k-th attempt ended with a timeout or a connection-level error
AttemptTransient(fetch, k) == fetch.outcomes[k].kind \in {"timeout", "neterr"}

\* C20: a listing fetch makes at most 3 attempts, each one after the first follows
\* an attempt that ended with a transient network error, a non-2xx status, a JSON
\* parse error or a schema mismatch ends the fetch with failure on its attempt, and
\* a successful attempt ends it with the list of that attempt.
C20_RetryOnlyAfterTransient ==
    agg.pc = "fetched" =>
        LET n == agg.fetched.attempts
        IN  /\ n \in 1..3
            /\ \A k \in 1..(n - 1) : AttemptTransient(agg, k)
            /\ \A k \in 1..n :
                  /\ ~AttemptTransient(agg, k) /\ ~AttemptSucceeded(agg, k)
                        => k = n /\ ~agg.fetched.ok
                  /\ AttemptSucceeded(agg, k)
                        => k = n /\ agg.fetched.ok
                                 /\ agg.fetched.items = agg.outcomes[k].items
            /\ agg.fetched.ok => AttemptSucceeded(agg, n)

\* a fetch retried twice, after a timeout and a connection error, and then got its
\* list, or a fetch was ended by a schema mismatch on its second attempt
C20_Witness ==
    /\ agg.pc = "fetched"
    /\ \/ /\ agg.outcomes[1].kind = "timeout"
          /\ agg.outcomes[2].kind = "neterr"
          /\ AttemptSucceeded(agg, 3)
          /\ agg.fetched = [ok |-> TRUE, items |-> agg.outcomes[3].items, attempts |-> 3]
       \/ /\ agg.outcomes[1].kind = "timeout"
          /\ agg.outcomes[2].kind = "json"
          /\ ~AttemptSucceeded(agg, 2)
          /\ agg.fetched = [ok |-> FALSE, items |-> <<>>, attempts |-> 2]

\* the token-level and the pair-level metadata the recorded refresh resolved for the
\* i-th aggregated token
TokenLevelMeta(rec, i) ==
    LET addrs == [k \in 1..Len(rec.boosts) |-> rec.boosts[k].tokenAddress]
    IN  MetaGet(fetchTokenMetaMap(addrs, rec.tokenRespOf), Lower(rec.boosts[i].tokenAddress))
PairLevelMeta(rec, i) ==
    LET addrs == [k \in 1..Len(rec.boosts) |-> rec.boosts[k].tokenAddress]
        pairs == topPairLoop(rec.boosts, 1, fetchTokenMetaMap(addrs, rec.tokenRespOf), <<>>)[2]
    IN  MetaGet(fetchPairsMetaMap(pairs, rec.pairRespOf), Lower(rec.boosts[i].tokenAddress))

\* C15: a top refresh whose primary fetch succeeded resolves and publishes one record
\* per aggregated token, in order, with the upstream's own fields intact, whichever
\* token batches and pair lookups failed; with every one of them failed the records
\* merely carry no resolved name, symbol or market cap.
C15_EnrichmentFailuresAbsorbed ==
    [][\A s \in Slots :
          topRuns[s].pc = "running" /\ topRuns'[s].pc = "free"
          => /\ obs' = {Settled("top", s, TRUE)}
             /\ cache'.lastError = "null"
             /\ \A r \in returns' : r.ok /\ r.state = cache'.latest
             /\ LET data == cache'.latest.data
                    top == agg'.boosts
                IN  /\ Len(data) = Len(top)
                    /\ \A i \in 1..Len(top) :
                          /\ data[i].chainId = top[i].chainId
                          /\ data[i].tokenAddress = top[i].tokenAddress
                          /\ data[i].rank = i
                          /\ data[i].score = top[i].totalAmount
                          /\ data[i].url = top[i].url
                          /\ data[i].description = top[i].description
                          /\ (/\ \A b \in DOMAIN agg'.tokenRespOf : ~agg'.tokenRespOf[b].ok
                              /\ \A q \in DOMAIN agg'.pairRespOf : ~agg'.pairRespOf[q].ok)
                             => /\ data[i].name = Undef
                                /\ data[i].symbol = Undef
                                /\ data[i].marketCap = NoNum
                                /\ data[i].label = shortAddress(top[i].tokenAddress)]_vars

\* a refresh of two tokens published both although its two token batches and its two
\* pair lookups all failed
C15_Witness ==
    /\ agg.pc = "enriched"
    /\ Len(agg.boosts) = 2
    /\ Cardinality(DOMAIN agg.tokenRespOf) = 2
    /\ Cardinality(DOMAIN agg.pairRespOf) = 2
    /\ \A b \in DOMAIN agg.tokenRespOf : ~agg.tokenRespOf[b].ok
    /\ \A q \in DOMAIN agg.pairRespOf : ~agg.pairRespOf[q].ok
    /\ Settled("top", 1, TRUE) \in obs
    /\ Len(cache.latest.data) = 2
    /\ cache.latest.data[2].symbol = Undef

\* `pair ?? token` taken field by field
OverlayStr(tokenValue, pairValue) == IF pairValue # Undef THEN pairValue ELSE tokenValue
OverlayNum(tokenValue, pairValue) == IF pairValue # NoNum THEN pairValue ELSE tokenValue

\* C16: within one refresh every metadata field of a published record is the
\* pair-level value when the pair-level pass resolved it and the token-level value
\* otherwise (token-level symbol "ABC" with pair-level marketCap 1000000 gives both).
C16_FieldwiseOverlay ==
    (agg.pc = "enriched" /\ Settled("top", 1, TRUE) \in obs) =>
        \A i \in 1..Len(agg.boosts) :
            LET node == cache.latest.data[i]
                t == TokenLevelMeta(agg, i)
                q == PairLevelMeta(agg, i)
            IN  /\ node.symbol = OverlayStr(t.symbol, q.symbol)
                /\ node.name = OverlayStr(t.name, q.name)
                /\ node.marketCap = OverlayNum(t.marketCap, q.marketCap)
                /\ node.iconUrl = OverlayStr(t.imageUrl, q.imageUrl)
                /\ node.headerImageUrl = OverlayStr(t.headerImageUrl, q.headerImageUrl)

\* the metadata fields of a registry entry that hold a value
ResolvedFields(meta) ==
    {f \in {"name", "symbol", "imageUrl", "headerImageUrl", "pairAddress"} : meta[f] # Undef}
        \cup (IF meta.marketCap # NoNum THEN {"marketCap"} ELSE {})

\* C17: a metadata field of a registry entry that is resolved stays resolved for as
\* long as the entry remains in the registry, whatever later refreshes resolve.
C17_ResolvedFieldsStay ==
    [][\A i \in 1..Len(recentCache.entries), j \in 1..Len(recentCache'.entries) :
          recentCache.entries[i][1] = recentCache'.entries[j][1]
          => ResolvedFields(recentCache.entries[i][2].meta)
                \subseteq ResolvedFields(recentCache'.entries[j][2].meta)]_vars

\* a recent refresh has just settled with success
RecentJustPublished == \E s \in Slots : Settled("recent", s, TRUE) \in obs

\* C18: the step that ends a successful recent refresh leaves at most RECENT_CAPACITY
\* entries in the registry and at most that many records in the published list.
C18_RegistryWithinCapacity ==
    [][\A s \in Slots :
          recentRuns[s].pc = "pairs" /\ recentRuns'[s].pc = "free"
          => /\ Len(recentCache'.entries) <= RECENT_CAPACITY
             /\ Len(recentCache'.latest.data) <= RECENT_CAPACITY
             /\ recentCache'.lastError = "null"]_vars

\* a refresh found more live entries than the capacity in the registry and left
\* exactly the capacity
C18_Witness ==
    /\ RecentJustPublished
    /\ agg.pc = "swept"
    /\ Cardinality({i \in 1..Len(agg.before) :
                       ~recentExpired(agg.startedAtMs, agg.before[i])}) > RECENT_CAPACITY
    /\ Len(recentCache.entries) = RECENT_CAPACITY
    /\ Len(recentCache.latest.data) = RECENT_CAPACITY

\* C19: the step that ends a successful recent refresh leaves no entry last seen more
\* than RECENT_TTL_MS (6 hours) before the time the refresh took as `now`, and the
\* published list holds exactly the entries left.
C19_NoEntryPastRetention ==
    [][\A s \in Slots :
          recentRuns[s].pc = "pairs" /\ recentRuns'[s].pc = "free"
          => /\ \A i \in 1..Len(recentCache'.entries) :
                   recentRuns[s].startedAtMs - recentCache'.entries[i][2].lastSeenAtMs
                      <= RECENT_TTL_MS
             /\ {recentCache'.latest.data[i].id : i \in 1..Len(recentCache'.latest.data)}
                   = {recentCache'.entries[i][1] : i \in 1..Len(recentCache'.entries)}
             /\ Len(recentCache'.latest.data) = Len(recentCache'.entries)]_vars

\* a refresh dropped an entry last seen more than 6 hours before it and kept one last
\* seen exactly 6 hours before it
C19_Witness ==
    /\ RecentJustPublished
    /\ agg.pc = "swept"
    /\ \E i \in 1..Len(agg.before) :
          /\ agg.startedAtMs - agg.before[i].lastSeenAtMs > RECENT_TTL_MS
          /\ ~MapHas(recentCache.entries, agg.before[i].key)
    /\ \E i \in 1..Len(recentCache.entries) :
          agg.startedAtMs - recentCache.entries[i][2].lastSeenAtMs = RECENT_TTL_MS

\* C24: an attempt that ends with connection refused is followed by another attempt
\* unless it was the last one allowed, as after a timeout, a reset or a DNS failure.
C24_ConnectionRefusedRetried ==
    agg.pc = "fetched" =>
        \A k \in 1..agg.fetched.attempts :
            (agg.outcomes[k].kind = "neterr" /\ agg.outcomes[k].code = "ECONNREFUSED")
                => (agg.fetched.attempts > k \/ k = LIST_MAX_ATTEMPTS)

\* C25: an enrichment fetch (a token batch fetch or a pair lookup) whose first
\* attempt ends with a transient network error makes a second attempt, and none makes
\* more than 2 attempts.
C25_EnrichmentFetchRetriedOnce ==
    (agg.pc = "fetched" /\ agg.fetcher \in {"tokens", "pairs"}) =>
        /\ agg.fetched.attempts <= 2
        /\ AttemptTransient(agg, 1) => agg.fetched.attempts = 2

\* the workers of the pool that await an invocation of fn
Outstanding(pool) == {w \in 1..Len(pool.workers) : pool.workers[w].st = "busy"}

\* the invocation of fn for the item at index i has finished and its result is stored
ItemDone(pool, i) == pool.results[i] = fnResult(pool.items[i])

\* C26: at no time are more than 3 token-batch fetches or more than 6 pair lookups
\* of one mapLimit call outstanding, however many items there are and in whatever
\* order the fetches complete.
C26_PoolWithinConcurrencyLimit ==
    /\ agg.kind = "tokens" => Cardinality(Outstanding(agg)) <= 3
    /\ agg.kind = "pairs" => Cardinality(Outstanding(agg)) <= 6

\* seven pair lookups: six are outstanding, one has completed
C26_Witness ==
    /\ agg.kind = "pairs"
    /\ agg.n = 7
    /\ Cardinality(Outstanding(agg)) = 6
    /\ Len(agg.calls) = 7
    /\ \E i \in 0..6 : ItemDone(agg, i)

\* C27: with at least 2 workers, whichever item is slow, no worker has returned while
\* an item is still unstarted, and once the pool runs every other item is eventually
\* started and completed.
C27_SlowItemStarvesNoOther ==
    /\ [](agg.pc = "running" /\ Len(agg.calls) < agg.n
            => Cardinality(Outstanding(agg)) = Len(agg.workers))
    /\ (agg.pc = "running" /\ agg.limit >= 2)
          ~> (\A i \in 0..(agg.n - 1) : i # agg.slow => ItemDone(agg, i))

\* the first of four items is still being fetched by the first of two workers while
\* the other three are done
C27_Witness ==
    /\ agg.pc = "running"
    /\ agg.limit = 2
    /\ agg.n = 4
    /\ agg.slow = 0
    /\ agg.workers[1] = [st |-> "busy", i |-> 0]
    /\ \A i \in 1..3 : ItemDone(agg, i)

\* C28: fn is invoked at most once per item at any time; when mapLimit resolves it
\* has been invoked exactly once per item, results[i] holds the result of items[i]
\* for every i, and no invocation is outstanding.
C28_EachItemOnceResultsInPlace ==
    /\ \A a, b \in 1..Len(agg.calls) : agg.calls[a] = agg.calls[b] => a = b
    /\ agg.pc = "resolved" =>
          /\ Len(agg.calls) = agg.n
          /\ {agg.calls[a] : a \in 1..Len(agg.calls)} = 0..(agg.n - 1)
          /\ \A i \in 0..(agg.n - 1) : ItemDone(agg, i)
          /\ Outstanding(agg) = {}

\* three items under two workers, the second worker returned before the first
C28_Witness ==
    /\ agg.pc = "resolved"
    /\ agg.n = 3
    /\ agg.limit = 2
    /\ agg.workers[2] = [st |-> "done", i |-> 3]
    /\ agg.workers[1] = [st |-> "done", i |-> 4]

\* C29: among the pair lookups of one refresh no two have the same PairIdentity,
\* comparing chainId and pairAddress without regard to letter case.
C29_PairIdentityLookedUpOnce ==
    agg.pc = "looked" =>
       \A a, b \in 1..Len(agg.lookups) :
          (/\ Lower(agg.lookups[a][1]) = Lower(agg.lookups[b][1])
           /\ Lower(agg.lookups[a][2]) = Lower(agg.lookups[b][2])) => a = b

\* three spellings of one pair and nothing else: a single lookup
C29_Witness ==
    /\ agg.pc = "looked"
    /\ agg.pairs = <<[chainId |-> "sol", pairAddress |-> "P1"],
                     [chainId |-> "SOL", pairAddress |-> "P1"],
                     [chainId |-> "sol", pairAddress |-> "p1"]>>
    /\ Len(agg.lookups) = 1

\* the liquidity a pair of a batch response counts with
LiquidityOf(p) == IF p.liquidityUsd = NoNum THEN 0 ELSE p.liquidityUsd

\* C30: for every token of a batch response, the token-level metadata is that of the
\* pair of highest liquidity among the token's pairs (missing liquidity counting as
\* 0), the first in response order among those of equal highest liquidity; tokens
\* are told apart by lowercased base address.
C30_HighestLiquidityFirstOnTies ==
    agg.pc = "batched" =>
       /\ {agg.out[k][1] : k \in 1..Len(agg.out)}
             = {Lower(agg.pairs[i].baseAddress) : i \in 1..Len(agg.pairs)}
       /\ \A i \in 1..Len(agg.pairs) :
             LET addr == Lower(agg.pairs[i].baseAddress)
                 same == {j \in 1..Len(agg.pairs) : Lower(agg.pairs[j].baseAddress) = addr}
             IN  (\A j \in same :
                      \/ LiquidityOf(agg.pairs[j]) < LiquidityOf(agg.pairs[i])
                      \/ LiquidityOf(agg.pairs[j]) = LiquidityOf(agg.pairs[i]) /\ j >= i)
                 => MetaGet(agg.out, addr).pairAddress = agg.pairs[i].pairAddress

\* three pairs of one token: none, then twice the same highest liquidity; and the
\* pair without a liquidity is kept over a later pair of liquidity 0
C30_Witness ==
    /\ agg.pc = "batched"
    /\ Len(agg.pairs) = 3
    /\ \/ /\ [i \in 1..3 |-> agg.pairs[i].baseAddress] = <<"Aa", "aa", "Aa">>
          /\ [i \in 1..3 |-> agg.pairs[i].liquidityUsd] = <<NoNum, 20, 20>>
          /\ MetaGet(agg.out, "aa").pairAddress = "P2"
       \/ /\ [i \in 1..3 |-> agg.pairs[i].baseAddress] = <<"Aa", "Bb", "aa">>
          /\ [i \in 1..3 |-> agg.pairs[i].liquidityUsd] = <<NoNum, 10, 0>>
          /\ MetaGet(agg.out, "aa").pairAddress = "P1"

\* a step started a refresh of the top (recent) cache
TopRefreshStarted ==
    /\ cache'.inFlight # 0
    /\ topRuns[cache'.inFlight].pc = "free"
    /\ topRuns'[cache'.inFlight].pc = "running"
    /\ cache'.lastAttemptedAtMs = now
RecentRefreshStarted ==
    /\ recentCache'.inFlight # 0
    /\ recentRuns[recentCache'.inFlight].pc = "free"
    /\ recentRuns'[recentCache'.inFlight].pc # "free"
    /\ recentCache'.lastAttemptedAtMs = now

\* C21: once the process runs a scheduler tick can always happen, in whatever state
\* the callers are; it starts a refresh of each cache that has none in flight and
\* leaves a cache with a refresh in flight alone;
\* the schedule run at process start starts a refresh of each cache without state
\* and none for a cache with state; neither hands an error to anyone; a refresh
\* that fails leaves the published state of its cache as it was, and when no call
\* awaits it nothing is rejected.
C21_SchedulerRefreshesInBackground ==
    [][/\ schedulerTick
           => /\ returns' = {}
              /\ cache.inFlight # 0 => cache' = cache /\ topRuns' = topRuns
              /\ recentCache.inFlight # 0
                    => recentCache' = recentCache /\ recentRuns' = recentRuns
              /\ cache.inFlight = 0 => TopRefreshStarted
              /\ recentCache.inFlight = 0 => RecentRefreshStarted
       /\ runSchedule
           => /\ returns' = {}
              /\ IF cache.latest = NoState /\ cache.inFlight = 0 THEN TopRefreshStarted
                 ELSE cache' = cache /\ topRuns' = topRuns
              /\ IF recentCache.latest = NoState /\ recentCache.inFlight = 0
                 THEN RecentRefreshStarted
                 ELSE recentCache' = recentCache /\ recentRuns' = recentRuns
       /\ \A s \in Slots :
             /\ Settled("top", s, FALSE) \in obs'
                  => /\ cache'.latest = cache.latest
                     /\ topWaiters(s) = {} => returns' = {}
             /\ Settled("recent", s, FALSE) \in obs'
                  => /\ recentCache'.latest = recentCache.latest
                     /\ recentWaiters(s) = {} => returns' = {}
      ]_vars
    /\ [](booted => ENABLED schedulerTick)

\* a refresh nobody awaited has just failed and the state published before it is
\* still there, while the other cache has a scheduled refresh in flight
C21_Witness ==
    /\ \E s \in Slots : obs = {Settled("top", s, FALSE)}
    /\ returns = {}
    /\ cache.latest # NoState
    /\ cache.lastError = "err"
    /\ \A c \in TopCallers : topCalls[c].pc = "idle"
    /\ recentCache.inFlight # 0

\* a step changed something of the top (recent) cache or of its callers
TopChanged == cache' # cache \/ topRuns' # topRuns \/ topCalls' # topCalls
RecentChanged ==
    recentCache' # recentCache \/ recentRuns' # recentRuns \/ recentCalls' # recentCalls

\* C22: a step that returns to a caller of one cache, suspends or resumes one, or
\* settles a refresh of one cache leaves the other cache, its refreshes and its
\* callers as they were; the only steps that change both caches are those of the
\* scheduler, which start a refresh of each and change nothing else; a call that
\* starts to wait awaits the refresh in flight on its own cache, and resumes only
\* when that refresh settles.
C22_CachesIndependent ==
    [][/\ (\/ topCalls' # topCalls
           \/ \E r \in returns' : r.cache = "top"
           \/ \E o \in obs' : o.cache = "top")
          => /\ ~RecentChanged
             /\ \A r \in returns' : r.cache = "top"
             /\ \A o \in obs' : o.cache = "top"
       /\ (\/ recentCalls' # recentCalls
           \/ \E r \in returns' : r.cache = "recent"
           \/ \E o \in obs' : o.cache = "recent")
          => /\ ~TopChanged
             /\ \A r \in returns' : r.cache = "recent"
             /\ \A o \in obs' : o.cache = "recent"
       /\ (TopChanged /\ RecentChanged)
          => /\ TopRefreshStarted
             /\ RecentRefreshStarted
             /\ cache' = [cache EXCEPT !.inFlight = cache'.inFlight,
                                       !.lastAttemptedAtMs = now]
             /\ recentCache' = [recentCache EXCEPT !.inFlight = recentCache'.inFlight,
                                                   !.lastAttemptedAtMs = now]
       /\ \A c \in TopCallers :
             /\ (topCalls[c].pc = "idle" /\ topCalls'[c].pc = "waiting")
                  => topCalls'[c].awaiting = cache'.inFlight /\ cache'.inFlight # 0
             /\ (topCalls[c].pc = "waiting" /\ topCalls'[c].pc = "idle")
                  => \E o \in obs' : o.cache = "top" /\ o.slot = topCalls[c].awaiting
       /\ \A c \in RecentCallers :
             /\ (recentCalls[c].pc = "idle" /\ recentCalls'[c].pc = "waiting")
                  => /\ recentCalls'[c].awaiting = recentCache'.inFlight
                     /\ recentCache'.inFlight # 0
             /\ (recentCalls[c].pc = "waiting" /\ recentCalls'[c].pc = "idle")
                  => \E o \in obs' : o.cache = "recent" /\ o.slot = recentCalls[c].awaiting
      ]_vars

\* the refresh a top call awaited has resolved and the call returned, while the
\* refresh of the recent cache is still in flight and a recent call awaits it
C22_Witness ==
    /\ \E s \in Slots : obs = {Settled("top", s, TRUE)}
    /\ \E r \in returns : r.cache = "top" /\ r.ok
    /\ recentCache.inFlight # 0
    /\ recentCache.latest = NoState
    /\ \E c \in RecentCallers : recentCalls[c].pc = "waiting"

\* C23: the health answer starts without cached data and without an error; a
\* refresh that succeeds makes cached true and clears lastError, a refresh that
\* fails sets lastError and leaves cached as it was, whether a call or the scheduler
\* started it; no other step changes either field. So with no refresh in flight,
\* cached tells whether some refresh succeeded and lastError whether the last
\* completed refresh failed.
C23_HealthReflectsLastRefresh ==
    /\ (~getHealth.cached /\ getHealth.lastError = "null")
    /\ [][/\ (\E s \in Slots : Settled("top", s, TRUE) \in obs')
             => /\ cache'.inFlight = 0
                /\ getHealth'.cached
                /\ getHealth'.lastError = "null"
          /\ (\E s \in Slots : Settled("top", s, FALSE) \in obs')
             => /\ cache'.inFlight = 0
                /\ getHealth'.cached = getHealth.cached
                /\ getHealth'.lastError # "null"
          /\ (\A o \in obs' : o.cache # "top")
             => /\ getHealth'.cached = getHealth.cached
                /\ getHealth'.lastError = getHealth.lastError
          ]_vars

\* nothing in flight, data cached by an earlier refresh, and the refresh a call
\* started has just failed
C23_Witness ==
    /\ cache.inFlight = 0
    /\ getHealth.cached
    /\ getHealth.lastError # "null"
    /\ \E s \in Slots : obs = {Settled("top", s, FALSE)}
    /\ \E r \in returns : r.cache = "top" /\ ~r.ok /\ r.path = "started"

\* the entries of the registry a recorded sweep found, that had not expired
LiveBefore == {i \in 1..Len(agg.before) : ~recentExpired(agg.startedAtMs, agg.before[i])}
KeptKeys == {recentCache.entries[k][1] : k \in 1..Len(recentCache.entries)}

\* C31: when a successful recent refresh finds more unexpired entries than the
\* capacity, it leaves exactly RECENT_CAPACITY entries, all of them unexpired entries
\* it found, and every entry it removed was last seen no later than every entry kept.
C31_CapacityEvictsLeastRecentlySeen ==
    (RecentJustPublished /\ agg.pc = "swept" /\ Cardinality(LiveBefore) > RECENT_CAPACITY)
    => /\ Len(recentCache.entries) = RECENT_CAPACITY
       /\ KeptKeys \subseteq {agg.before[i].key : i \in LiveBefore}
       /\ \A i \in LiveBefore :
             agg.before[i].key \notin KeptKeys
             => \A k \in 1..Len(recentCache.entries) :
                   agg.before[i].lastSeenAtMs <= recentCache.entries[k][2].lastSeenAtMs

\* four unexpired entries, the one removed last seen strictly before the three kept
C31_Witness ==
    /\ RecentJustPublished
    /\ agg.pc = "swept"
    /\ Cardinality(LiveBefore) > RECENT_CAPACITY
    /\ \E i \in LiveBefore :
          /\ agg.before[i].key \notin KeptKeys
          /\ \A k \in 1..Len(recentCache.entries) :
                agg.before[i].lastSeenAtMs < recentCache.entries[k][2].lastSeenAtMs

\* the TTL eviction and the capacity eviction of a refresh that took `startedAt` as
\* its `now` and learned no metadata, applied to a registry
EvictAgain(entries, startedAt) ==
    recentEvictOverCapacity(recentSweepLoop(entries, 1, startedAt, <<>>, <<>>, <<>>))

\* C32: applying the TTL eviction and the capacity eviction again, with the same
\* `now`, to the registry a successful recent refresh produced removes nothing and
\* gives the same entries.
C32_EvictionIdempotent ==
    (RecentJustPublished /\ agg.pc = "swept")
    => EvictAgain(recentCache.entries, agg.startedAtMs) = recentCache.entries

\* the refresh removed an entry (by TTL or by capacity) and left some
C32_Witness ==
    /\ RecentJustPublished
    /\ agg.pc = "swept"
    /\ Len(recentCache.entries) < Len(agg.before)
    /\ Len(recentCache.entries) >= 2
    /\ EvictAgain(recentCache.entries, agg.startedAtMs) = recentCache.entries

\* when the entry a published record was built from was last seen
LastSeenOfRecord(node) == MapGet(recentCache.entries, node.id).lastSeenAtMs

\* C33: in the state a successful recent refresh publishes, the record at position i
\* has rank i, and a record at an earlier position was last seen no earlier than a
\* record at a later one.
C33_PublishedByRecency ==
    RecentJustPublished
    => LET data == recentCache.latest.data
       IN  /\ \A i \in 1..Len(data) : data[i].rank = i
           /\ \A i, j \in 1..Len(data) :
                 i < j => LastSeenOfRecord(data[i]) >= LastSeenOfRecord(data[j])

\* the first published record was seen strictly later than the second, and it is
\* not the first entry of the registry
C33_Witness ==
    /\ RecentJustPublished
    /\ Len(recentCache.latest.data) >= 2
    /\ LastSeenOfRecord(recentCache.latest.data[1]) > LastSeenOfRecord(recentCache.latest.data[2])
    /\ recentCache.entries[1][1] # recentCache.latest.data[1].id

\* the distinct tokens the sources of a cycle reported (a supplementary source that
\* failed reports none)
ReportedTokens(feeds) ==
    LET all == feeds.top.items \o catchEmpty(feeds.latest) \o catchEmpty(feeds.ads)
                 \o catchEmpty(feeds.profiles)
    IN  {dedupeKey(all[i]) : i \in 1..Len(all)}

\* C34: when the sources of a recent refresh report more distinct tokens than the
\* capacity, the refresh upserts more records than the capacity into the registry.
C34_ObservesBeyondCapacity ==
    (agg.pc = "observed" /\ Cardinality(ReportedTokens(agg.feeds)) > RECENT_CAPACITY)
    => Len(agg.boosts) > RECENT_CAPACITY

\* C36: a listing fetch or a token-batch fetch sleeps once between two consecutive
\* attempts and at no other time: 200 ms after the first failed attempt, 400 ms
\* after the second, 200 * 2^(k-1) ms after the k-th; none after its last attempt.
C36_BackoffDoubles ==
    (agg.pc = "fetched" /\ agg.fetcher # "pairs")
    => /\ Len(agg.sleeps) = agg.fetched.attempts - 1
       /\ \A k \in 1..Len(agg.sleeps) : agg.sleeps[k] = 200 * 2 ^ (k - 1)
       /\ Len(agg.sleeps) >= 1 => agg.sleeps[1] = 200
       /\ Len(agg.sleeps) >= 2 => agg.sleeps[2] = 400

\* a listing fetch that made three attempts, or a token-batch fetch that made two
\* and stopped on a failure that is not retried
C36_Witness ==
    /\ agg.pc = "fetched"
    /\ \/ agg.fetcher = "top" /\ agg.fetched.attempts = 3 /\ agg.sleeps = <<200, 400>>
       \/ /\ agg.fetcher = "tokens"
          /\ agg.fetched.attempts = 2
          /\ ~agg.fetched.ok
          /\ agg.outcomes[2].kind = "status"
          /\ agg.sleeps = <<200>>

\* C37: a call of getTopBoostBubbles with limit L that returns a state as not stale
\* gets at least min(L, distinct tokens the sources reported to the refresh that
\* produced the state) records, also when it joined a refresh started with another
\* limit.
C37_NotStaleHoldsEnoughRecords ==
    \A r \in returns :
       (r.cache = "top" /\ r.ok /\ ~r.stale /\ agg.pc = "refreshed")
       => LET reported == Cardinality(ReportedTokens(agg.feeds))
          IN  Len(r.state.data) >= (IF r.limit < reported THEN r.limit ELSE reported)

\* C38: the step in which a recent refresh fails leaves the registry and the
\* published state as they were when the refresh started; of the recent cache it
\* changes lastError and clears inFlight only, lastAttemptedAtMs being the time the
\* refresh started.
C38_FailedRecentRefreshKeepsRegistry ==
    [][\A s \in Slots :
          Settled("recent", s, FALSE) \in obs'
          => /\ recentCache'.entries = recentRuns[s].entriesAtStart
             /\ recentCache'.latest = recentRuns[s].latestAtStart
             /\ recentCache'.lastAttemptedAtMs = recentRuns[s].startedAtMs
             /\ recentCache' = [recentCache EXCEPT !.lastError = "err", !.inFlight = 0]
      ]_vars

\* a refresh has just failed over a registry of several entries and a published state
C38_Witness ==
    /\ \E s \in Slots : obs = {Settled("recent", s, FALSE)}
    /\ agg.pc = "failed"
    /\ Len(recentCache.entries) >= 2
    /\ recentCache.entries = agg.atStart
    /\ recentCache.latest # NoState
    /\ recentCache.lastError = "err"
    /\ recentCache.lastAttemptedAtMs > recentCache.latest.updatedAtMs

\* C39: after a successful recent refresh, every record the aggregator returned in
\* the cycle has an entry in the registry under its key, last seen at the `now` of
\* the cycle and holding that record.
C39_ObservedRecordsStored ==
    (RecentJustPublished /\ agg.pc = "published")
    => \A i \in 1..Len(agg.boosts) :
          LET keyStr == boostKeyStr(agg.boosts[i])
          IN  /\ MapHas(recentCache.entries, keyStr)
              /\ MapGet(recentCache.entries, keyStr).lastSeenAtMs = agg.startedAtMs
              /\ MapGet(recentCache.entries, keyStr).boost = agg.boosts[i]

\* the pairs the upstream answers of the aggregator harness carry
AnsweredPairs == {PairObj1, PairObj2, PairObj3}

\* the answered pairs whose base token is the token of this node, on its chain
OwnPairs(node) ==
    {p \in AnsweredPairs : /\ Lower(p.chainId) = Lower(node.chainId)
                           /\ Lower(p.baseAddress) = Lower(node.tokenAddress)}

\* C40: the metadata a published record of token (chainId c, address a) carries
\* comes only from a pair whose base token is a on chain c (or, for the pair
\* address, from the record's own url): a record never carries the image, market
\* cap, name, header or pair address of a pair of another token or another chain.
C40_MetadataFromOwnToken ==
    agg.pc = "done"
    => \A i \in 1..Len(agg.nodes) :
          LET node == agg.nodes[i]
          IN  /\ node.iconUrl # Undef => \E p \in OwnPairs(node) : p.imageUrl = node.iconUrl
              /\ node.headerImageUrl # Undef
                 => \E p \in OwnPairs(node) : p.header = node.headerImageUrl
              /\ node.name # Undef => \E p \in OwnPairs(node) : p.name = node.name
              /\ node.symbol # Undef => \E p \in OwnPairs(node) : p.symbol = node.symbol
              /\ node.marketCap # NoNum
                 => \E p \in OwnPairs(node) : CoalesceNum(p.marketCap, p.fdv) = node.marketCap
              /\ node.pairAddress # Undef
                 => \/ node.pairAddress = parsePairAddressFromUrl(node.url, node.chainId)
                    \/ \E p \in OwnPairs(node) : p.pairAddress = node.pairAddress

\* C35: a top refresh that was started eventually settles, whether or not a caller
\* waits for it; the step in which it settles clears cache.inFlight, and while
\* inFlight is clear the scheduler tick, and a get that finds no usable state, start
\* a new refresh.
C35_StartedRefreshSettles ==
    /\ \A s \in Slots : (cache.inFlight = s) ~> (cache.inFlight = 0)
    /\ [](\A s \in Slots : (\E ok \in BOOLEAN : Settled("top", s, ok) \in obs)
                           => cache.inFlight = 0 /\ topRuns[s].pc = "free")
    /\ []((booted /\ cache.inFlight = 0)
          => /\ ENABLED (schedulerTick /\ cache'.inFlight # 0)
             /\ \A c \in TopCallers :
                  (topCalls[c].pc = "idle" /\ cache.latest = NoState)
                  => ENABLED (getTopBoostBubbles(c, 1) /\ cache'.inFlight # 0))

\* a refresh nobody waited for has just failed, after an earlier one had published;
\* inFlight is clear again
C35_Witness ==
    /\ \E s \in Slots : obs = {Settled("top", s, FALSE)}
    /\ returns = {}
    /\ \A c \in TopCallers : topCalls[c].pc = "idle"
    /\ cache.inFlight = 0
    /\ cache.latest # NoState
    /\ cache.lastAttemptedAtMs > cache.latest.updatedAtMs

====
